---- MODULE Spec2Model ----
(***************************************************************************)
(* Model of the Solana wallet tracker (src/bot): the Wallet Store          *)
(* (database.py), the swap classifier and the transaction ingestion        *)
(* pipeline (webhook_server.py) and the holder aggregator                  *)
(* (helius_client.py).                                                     *)
(*                                                                         *)
(* Python's None is the string "None" here; a float amount is a scaled     *)
(* integer where the scale matters (HumanAmount).                          *)
(***************************************************************************)
EXTENDS Integers, Sequences, FiniteSets, TLC

VARIABLES
    wallets,        \* table wallets, rows in insertion order
    transactions,   \* table transactions, rows in insertion order
    last,           \* the latest call of the Database interface and its return value
    ncalls,         \* number of Database interface calls made (SpecDb)
    addLog,         \* history: the add_transaction calls of the pipeline that returned
    req,            \* the webhook requests being served, one record per request
    alerts,         \* history: the send_alert calls of the pipeline
    tokenCache,     \* solana_utils._token_cache: the mints that are cached
    cls,            \* one call of analyze_swap: inputs and result
    hold,           \* one call of get_token_holders
    cmd,            \* the chat command being handled (commands are handled one at a time)
    hook,           \* _shared_webhook_id, the webhooks at the remote service, requests sent
    sup,            \* main and its two tasks, the chat listener and the webhook server
    calc            \* one call of calculate_token_amount

vars ==
    <<wallets, transactions, last, ncalls, addLog, req, alerts, tokenCache, cls, hold,
      cmd, hook, sup, calc>>

None == "None"

----------------------------------------------------------------------------
(* Bounds *)

MaxCalls == 4            \* Database interface calls in one behaviour of SpecDb
MaxTokenTransfers == 2   \* token transfers in one analyze_swap input
MaxNativeTransfers == 1  \* native transfers in one analyze_swap input
MaxAmount == 1           \* largest transfer amount
MaxBatch == 2            \* transactions in one webhook payload
MaxDeliveries == 2       \* transactions in all payloads of one behaviour of Spec
MaxHolderWallets == 2    \* wallets in one get_token_holders call
MaxBalances == 2         \* token accounts one balance lookup returns
AmountScale == 1         \* human-readable amounts are held in units of 10^-AmountScale
MaxCommands == 3         \* chat commands in one behaviour of SpecCommands
MaxRawAmount == 30       \* raw amounts calculate_token_amount is called on, besides 1500000
MaxDecimals == 2         \* decimals calculate_token_amount is called on, besides 6

----------------------------------------------------------------------------
(* Program constants *)

SOL_MINT == "So11111111111111111111111111111111111111112"
MAX_CONCURRENT_REQUESTS == 10

----------------------------------------------------------------------------
(* database.py: the Wallet Store *)

Names == {"alice", "bob"}
CmdNames == {"alice"}
Signatures == {"s1", "s2"}

\* Smallest index at which the sequence of flags is TRUE, or 0: the first row a WHERE
\* clause finds, the first element a for loop stops at.
FirstIndex(flags) ==
    IF \A i \in DOMAIN flags : ~flags[i] THEN 0
    ELSE CHOOSE i \in DOMAIN flags : flags[i] /\ \A j \in 1..(i - 1) : ~flags[j]

RemoveAt(s, i) == [j \in 1..(Len(s) - 1) |-> IF j < i THEN s[j] ELSE s[j + 1]]

WalletIndex(ws, address) == FirstIndex([i \in DOMAIN ws |-> ws[i].address = address])

\* get_wallet: the row with this address, or None.
get_wallet(ws, address) ==
    IF WalletIndex(ws, address) = 0
    THEN [found |-> FALSE, address |-> None, name |-> None, helius_webhook_id |-> None]
    ELSE [found |-> TRUE,
          address |-> ws[WalletIndex(ws, address)].address,
          name |-> ws[WalletIndex(ws, address)].name,
          helius_webhook_id |-> ws[WalletIndex(ws, address)].helius_webhook_id]

\* A mutant of add_wallet: INSERT OR REPLACE instead of INSERT.
add_wallet_replace(ws, address, name, webhook_id) ==
    [wallets |-> Append(
                    IF WalletIndex(ws, address) = 0 THEN ws
                    ELSE RemoveAt(ws, WalletIndex(ws, address)),
                    [address |-> address, name |-> name, helius_webhook_id |-> webhook_id]),
     ret |-> TRUE]

\* add_wallet: INSERT; the UNIQUE constraint on address raises IntegrityError -> False.
add_wallet(ws, address, name, webhook_id) ==
    IF WalletIndex(ws, address) # 0
    THEN [wallets |-> ws, ret |-> FALSE]
    ELSE [wallets |-> Append(ws, [address |-> address, name |-> name,
                                  helius_webhook_id |-> webhook_id]),
          ret |-> TRUE]

\* remove_wallet: SELECT the webhook id, DELETE the row; None when there is no row.
remove_wallet(ws, address) ==
    IF WalletIndex(ws, address) = 0
    THEN [wallets |-> ws, ret |-> None]
    ELSE [wallets |-> RemoveAt(ws, WalletIndex(ws, address)),
          ret |-> ws[WalletIndex(ws, address)].helius_webhook_id]

\* rename_wallet: UPDATE name; True when a row was updated.
rename_wallet(ws, address, new_name) ==
    IF WalletIndex(ws, address) = 0
    THEN [wallets |-> ws, ret |-> FALSE]
    ELSE [wallets |-> [ws EXCEPT ![WalletIndex(ws, address)].name = new_name],
          ret |-> TRUE]

\* update_wallet_webhook_id: UPDATE helius_webhook_id; True when a row was updated.
update_wallet_webhook_id(ws, address, webhook_id) ==
    IF WalletIndex(ws, address) = 0
    THEN [wallets |-> ws, ret |-> FALSE]
    ELSE [wallets |-> [ws EXCEPT ![WalletIndex(ws, address)].helius_webhook_id = webhook_id],
          ret |-> TRUE]

\* get_wallets: every row (the order by created_at is not modelled).
get_wallets(ws) == ws

TransactionIndex(txs, signature) ==
    FirstIndex([i \in DOMAIN txs |-> txs[i].signature = signature])

\* A mutant of transaction_exists: the lookup never finds a row.
transaction_exists_never(txs, signature) == FALSE

\* transaction_exists: SELECT 1 FROM transactions WHERE signature = ?
transaction_exists(txs, signature) == TransactionIndex(txs, signature) # 0

\* A mutant of add_transaction: no UNIQUE constraint on signature.
add_transaction_nounique(txs, row) ==
    [transactions |-> Append(txs, row), ret |-> TRUE]

\* A mutant of add_transaction: INSERT OR REPLACE instead of INSERT.
add_transaction_replace(txs, row) ==
    IF TransactionIndex(txs, row.signature) # 0
    THEN [transactions |-> [txs EXCEPT ![TransactionIndex(txs, row.signature)] = row],
          ret |-> TRUE]
    ELSE [transactions |-> Append(txs, row), ret |-> TRUE]

\* add_transaction: INSERT; the UNIQUE constraint on signature raises IntegrityError -> False.
add_transaction(txs, row) ==
    IF TransactionIndex(txs, row.signature) # 0
    THEN [transactions |-> txs, ret |-> FALSE]
    ELSE [transactions |-> Append(txs, row), ret |-> TRUE]

----------------------------------------------------------------------------
(* webhook_server.py: analyze_swap, the swap classifier *)

Wallet == "w1"          \* the wallet analyze_swap is called for in SpecClassify
Other == "u1"           \* any other account
Mints == {SOL_MINT, "X", "Y"}

NoSwap == [type |-> "none", token_address |-> None, amount |-> 0, raw_amount |-> None]

SwapOf(type, t) ==
    [type |-> type, token_address |-> t.mint, amount |-> t.amount, raw_amount |-> None]

\* The {mint, amount} entries appended for the selected transfers, in payload order.
Entries(sel) ==
    [i \in 1..Len(sel) |-> [mint |-> sel[i].mint, amount |-> sel[i].tokenAmount]]

\* A mutant of tokens_sent: every transfer counts as sent, whoever sent it.
tokens_sent_all(wallet_address, token_transfers) ==
    Entries(token_transfers)

\* tokens_sent: if from_addr == wallet_address
tokens_sent(wallet_address, token_transfers) ==
    Entries(SelectSeq(token_transfers, LAMBDA t: t.fromUserAccount = wallet_address))

\* A mutant of tokens_received: if to_addr == wallet_address, not elif.
tokens_received_if(wallet_address, token_transfers) ==
    Entries(SelectSeq(token_transfers, LAMBDA t: t.toUserAccount = wallet_address))

\* tokens_received: elif to_addr == wallet_address
tokens_received(wallet_address, token_transfers) ==
    Entries(SelectSeq(token_transfers, LAMBDA t: t.fromUserAccount # wallet_address
                                                 /\ t.toUserAccount = wallet_address))

RECURSIVE SumAmounts(_)
SumAmounts(transfers) ==
    IF transfers = <<>> THEN 0
    ELSE Head(transfers).amount + SumAmounts(Tail(transfers))

\* sol_sent += amount, for the native transfers with from_addr == wallet_address
sol_sent(wallet_address, native_transfers) ==
    SumAmounts(SelectSeq(native_transfers, LAMBDA t: t.fromUserAccount = wallet_address))

\* sol_received += amount, for the others with to_addr == wallet_address
sol_received(wallet_address, native_transfers) ==
    SumAmounts(SelectSeq(native_transfers, LAMBDA t: t.fromUserAccount # wallet_address
                                                     /\ t.toUserAccount = wallet_address))

\* Index of the first entry whose mint is not SOL_MINT, or 0.
FirstNonSol(entries) == FirstIndex([i \in DOMAIN entries |-> entries[i].mint # SOL_MINT])

\* A mutant of analyze_swap: the rules on the native sums are tried before the rules on the
\* mints.
analyze_swap_native_first(wallet_address, token_transfers, native_transfers) ==
    LET sent == tokens_sent(wallet_address, token_transfers)
        received == tokens_received(wallet_address, token_transfers)
        solSent == sol_sent(wallet_address, native_transfers)
        solReceived == sol_received(wallet_address, native_transfers)
    IN  IF solReceived > solSent /\ sent # <<>> THEN SwapOf("sell", sent[1])
        ELSE IF solSent > solReceived /\ received # <<>> THEN SwapOf("buy", received[1])
        ELSE IF FirstNonSol(received) # 0 THEN SwapOf("buy", received[FirstNonSol(received)])
        ELSE IF FirstNonSol(sent) # 0 THEN SwapOf("sell", sent[FirstNonSol(sent)])
        ELSE NoSwap

\* A mutant of analyze_swap: the sell rule is tried before the buy rule.
analyze_swap_sell_first(wallet_address, token_transfers, native_transfers) ==
    LET sent == tokens_sent(wallet_address, token_transfers)
        received == tokens_received(wallet_address, token_transfers)
        solSent == sol_sent(wallet_address, native_transfers)
        solReceived == sol_received(wallet_address, native_transfers)
    IN  IF FirstNonSol(sent) # 0 THEN SwapOf("sell", sent[FirstNonSol(sent)])
        ELSE IF FirstNonSol(received) # 0 THEN SwapOf("buy", received[FirstNonSol(received)])
        ELSE IF solReceived > solSent /\ sent # <<>> THEN SwapOf("sell", sent[1])
        ELSE IF solSent > solReceived /\ received # <<>> THEN SwapOf("buy", received[1])
        ELSE NoSwap

\* A mutant of analyze_swap: the sell rule reports the last sent transfer, not the first
\* non-SOL one.
analyze_swap_sell_last(wallet_address, token_transfers, native_transfers) ==
    LET sent == tokens_sent(wallet_address, token_transfers)
        received == tokens_received(wallet_address, token_transfers)
        solSent == sol_sent(wallet_address, native_transfers)
        solReceived == sol_received(wallet_address, native_transfers)
    IN  IF FirstNonSol(received) # 0 THEN SwapOf("buy", received[FirstNonSol(received)])
        ELSE IF FirstNonSol(sent) # 0 THEN SwapOf("sell", sent[Len(sent)])
        ELSE IF solReceived > solSent /\ sent # <<>> THEN SwapOf("sell", sent[1])
        ELSE IF solSent > solReceived /\ received # <<>> THEN SwapOf("buy", received[1])
        ELSE NoSwap

\* A mutant of analyze_swap: the native sums are compared with >= in the SOL-only rules.
analyze_swap_native_ge(wallet_address, token_transfers, native_transfers) ==
    LET sent == tokens_sent(wallet_address, token_transfers)
        received == tokens_received(wallet_address, token_transfers)
        solSent == sol_sent(wallet_address, native_transfers)
        solReceived == sol_received(wallet_address, native_transfers)
    IN  IF FirstNonSol(received) # 0 THEN SwapOf("buy", received[FirstNonSol(received)])
        ELSE IF FirstNonSol(sent) # 0 THEN SwapOf("sell", sent[FirstNonSol(sent)])
        ELSE IF solReceived >= solSent /\ sent # <<>> THEN SwapOf("sell", sent[1])
        ELSE IF solSent >= solReceived /\ received # <<>> THEN SwapOf("buy", received[1])
        ELSE NoSwap

\* analyze_swap: the first rule that applies decides; NoSwap is the None result.
analyze_swap(wallet_address, token_transfers, native_transfers) ==
    LET sent == tokens_sent(wallet_address, token_transfers)
        received == tokens_received(wallet_address, token_transfers)
        solSent == sol_sent(wallet_address, native_transfers)
        solReceived == sol_received(wallet_address, native_transfers)
    IN  IF FirstNonSol(received) # 0 THEN SwapOf("buy", received[FirstNonSol(received)])
        ELSE IF FirstNonSol(sent) # 0 THEN SwapOf("sell", sent[FirstNonSol(sent)])
        ELSE IF solReceived > solSent /\ sent # <<>> THEN SwapOf("sell", sent[1])
        ELSE IF solSent > solReceived /\ received # <<>> THEN SwapOf("buy", received[1])
        ELSE NoSwap

RECURSIVE SeqsUpTo(_, _)
\* Every sequence over S of length at most n.
SeqsUpTo(S, n) ==
    IF n = 0 THEN {<<>>}
    ELSE SeqsUpTo(S, n - 1)
         \cup {Append(s, x) : s \in {t \in SeqsUpTo(S, n - 1) : Len(t) = n - 1}, x \in S}

TokenTransfer ==
    [mint : Mints, fromUserAccount : {Wallet, Other}, toUserAccount : {Wallet, Other},
     tokenAmount : 1..MaxAmount]

NativeTransfer ==
    [fromUserAccount : {Wallet, Other}, toUserAccount : {Wallet, Other}, amount : 1..MaxAmount]

ClsIdle == [pc |-> "input", token_transfers |-> <<>>, native_transfers |-> <<>>,
            result |-> NoSwap]

----------------------------------------------------------------------------
(* solana_utils.py: token metadata and price, as the pipeline uses them *)

NoneNum == 0 - 1        \* Python's None in a numeric field (usd_value)

\* The symbol the Jupiter API reports for a mint.
SymbolOf(mint) == IF mint = "X" THEN "XS" ELSE IF mint = "Y" THEN "YS" ELSE "WSOL"

\* The prices get_token_price can return: None (no data or an error), 0.0 or a price.
Prices == {NoneNum, 0, 3}

EmptyCache == [m \in Mints |-> None]

----------------------------------------------------------------------------
(* webhook_server.py: helius_webhook, process_transaction, process_swap_transaction *)

\* Two requests are served at the same time.
Requests == {"r1", "r2"}

Account(feePayer, accountData) == [feePayer |-> feePayer, accountData |-> accountData]

Transfers(tokenTransfers, nativeTransfers) ==
    [tokenTransfers |-> tokenTransfers, nativeTransfers |-> nativeTransfers]

TokenT(mint, from, to, amount) ==
    [mint |-> mint, fromUserAccount |-> from, toUserAccount |-> to, tokenAmount |-> amount]

NativeT(from, to, amount) ==
    [fromUserAccount |-> from, toUserAccount |-> to, amount |-> amount]

Tx(signature, type, accounts, transfers) ==
    [signature |-> signature, type |-> type,
     feePayer |-> accounts.feePayer, accountData |-> accounts.accountData,
     tokenTransfers |-> transfers.tokenTransfers,
     nativeTransfers |-> transfers.nativeTransfers]

NoTx == Tx(None, "none", Account(None, <<>>), Transfers(<<>>, <<>>))

\* The transaction objects a payload item is drawn from.
TxPool ==
    { \* w1 pays the fee and buys X; w2 is in the account list as well
      Tx("s1", "SWAP", Account("w1", <<"w2">>),
         Transfers(<<TokenT("X", "u1", "w1", 2)>>, <<NativeT("w1", "u1", 1)>>)),
      \* the same signature with other content: the fee payer is not tracked, w2 sells Y
      Tx("s1", "SWAP", Account("u1", <<"u1", "w2">>),
         Transfers(<<TokenT("Y", "w2", "u1", 1)>>, <<>>)),
      \* w1 receives wrapped SOL and pays native SOL
      Tx("s2", "SWAP", Account("w1", <<>>),
         Transfers(<<TokenT(SOL_MINT, "u1", "w1", 1)>>, <<NativeT("w1", "u1", 2)>>)),
      \* no tracked wallet takes part
      Tx("s2", "SWAP", Account("u1", <<"u1">>),
         Transfers(<<TokenT("X", "u1", "u1", 1)>>, <<>>)),
      \* a swap of a tracked wallet without token transfers
      Tx("s2", "SWAP", Account("w1", <<>>), Transfers(<<>>, <<NativeT("u1", "w1", 1)>>)),
      \* not a swap
      Tx("s1", "TRANSFER", Account("w1", <<>>),
         Transfers(<<TokenT("X", "u1", "w1", 2)>>, <<>>)),
      \* no signature
      Tx(None, "SWAP", Account("w1", <<>>),
         Transfers(<<TokenT("X", "u1", "w1", 2)>>, <<>>)) }

ReqIdle ==
    [pc |-> "idle", left |-> 0, item |-> 0, tx |-> NoTx, fee_payer |-> None,
     wallet_name |-> None, scan |-> 0, token_symbol |-> None, usd_value |-> NoneNum,
     replay |-> FALSE, raised |-> FALSE, seen |-> NoTx]

\* The request after process_transaction has returned for its current item.
ItemDone(rq) ==
    [rq EXCEPT !.pc = "next", !.tx = NoTx, !.fee_payer = None, !.wallet_name = None,
               !.scan = 0, !.token_symbol = None, !.usd_value = NoneNum]

\* A mutant of Caught: process_transaction has no except clause, the exception leaves the
\* loop of helius_webhook and the request is answered with status 500.
Caught_propagates(rq) == [rq EXCEPT !.pc = "failed", !.raised = TRUE]

\* process_transaction: an exception of the current item is caught and logged, and the
\* function returns. raised is history: an item of this request has raised.
Caught(rq) == [ItemDone(rq) EXCEPT !.raised = TRUE]

SwapInfo(rq) == analyze_swap(rq.fee_payer, rq.tx.tokenTransfers, rq.tx.nativeTransfers)

\* A mutant of AfterWallet: get_token_info does not look into the cache.
AfterWallet_uncached(rq, wallet, cache) ==
    LET rq1 == [rq EXCEPT !.fee_payer = wallet.address, !.wallet_name = wallet.name]
        swap_info == SwapInfo(rq1)
        mint == swap_info.token_address
    IN  IF swap_info = NoSwap
        THEN [rq |-> ItemDone(rq), cache |-> cache]
        ELSE IF mint = SOL_MINT
        THEN [rq |-> [rq1 EXCEPT !.pc = "price", !.token_symbol = "SOL"],
              cache |-> [cache EXCEPT ![mint] = "SOL"]]
        ELSE [rq |-> [rq1 EXCEPT !.pc = "strict"], cache |-> cache]

\* A mutant of AfterWallet: fee_payer stays the fee payer of the transaction when the wallet
\* was found in the account list.
AfterWallet_fee_payer(rq, wallet, cache) ==
    LET rq1 == [rq EXCEPT !.wallet_name = wallet.name]
        swap_info == SwapInfo(rq1)
        mint == swap_info.token_address
    IN  IF swap_info = NoSwap
        THEN [rq |-> ItemDone(rq), cache |-> cache]
        ELSE IF cache[mint] # None
        THEN [rq |-> [rq1 EXCEPT !.pc = "price", !.token_symbol = cache[mint]],
              cache |-> cache]
        ELSE IF mint = SOL_MINT
        THEN [rq |-> [rq1 EXCEPT !.pc = "price", !.token_symbol = "SOL"],
              cache |-> [cache EXCEPT ![mint] = "SOL"]]
        ELSE [rq |-> [rq1 EXCEPT !.pc = "strict"], cache |-> cache]

\* process_swap_transaction from the tracked wallet on, up to its next await: classify,
\* then get_token_info up to the cache check.
AfterWallet(rq, wallet, cache) ==
    LET rq1 == [rq EXCEPT !.fee_payer = wallet.address, !.wallet_name = wallet.name]
        swap_info == SwapInfo(rq1)
        mint == swap_info.token_address
    IN  IF swap_info = NoSwap
        THEN [rq |-> ItemDone(rq), cache |-> cache]
        ELSE IF cache[mint] # None
        THEN [rq |-> [rq1 EXCEPT !.pc = "price", !.token_symbol = cache[mint]],
              cache |-> cache]
        ELSE IF mint = SOL_MINT
        THEN [rq |-> [rq1 EXCEPT !.pc = "price", !.token_symbol = "SOL"],
              cache |-> [cache EXCEPT ![mint] = "SOL"]]
        ELSE [rq |-> [rq1 EXCEPT !.pc = "strict"], cache |-> cache]

\* The row process_swap_transaction passes to add_transaction. raw_amount is None in
\* every result of analyze_swap, so the amount is the classifier's amount as it is.
RowOf(rq) ==
    [wallet_address |-> rq.fee_payer, signature |-> rq.tx.signature,
     type |-> SwapInfo(rq).type, token_address |-> SwapInfo(rq).token_address,
     token_symbol |-> rq.token_symbol, amount |-> SwapInfo(rq).amount,
     usd_value |-> rq.usd_value]

PipelineFrame == UNCHANGED <<wallets, last, ncalls, cls, hold, cmd, hook, sup, calc>>

RECURSIVE SumOver(_, _)
SumOver(S, f) ==
    IF S = {} THEN 0
    ELSE LET x == CHOOSE y \in S : TRUE IN f[x] + SumOver(S \ {x}, f)

\* The transaction objects of the payloads received so far.
Delivered == SumOver(Requests, [r \in Requests |-> req[r].item + req[r].left])

\* helius_webhook: a request arrives with a JSON body of n transaction objects.
Receive(r) ==
    /\ req[r].pc = "idle"
    /\ \E n \in 0..MaxBatch :
         /\ Delivered + n <= MaxDeliveries
         /\ req' = [req EXCEPT ![r].pc = "next", ![r].left = n]
    /\ UNCHANGED <<transactions, addLog, alerts, tokenCache>>
    /\ PipelineFrame

\* helius_webhook: the body is not JSON, the request is answered with status 400.
RejectMalformed(r) ==
    /\ req[r].pc = "idle"
    /\ req' = [req EXCEPT ![r].pc = "rejected"]
    /\ UNCHANGED <<transactions, addLog, alerts, tokenCache>>
    /\ PipelineFrame

\* History: a row with this signature is in the table.
Stored(signature) == \E i \in DOMAIN transactions : transactions[i].signature = signature

\* helius_webhook: the loop takes the next item, or answers ok after the last one;
\* process_transaction runs up to its first await. The item is drawn when its turn comes:
\* the items of a payload do not depend on each other. replay and seen are history: the
\* record of the signature was stored when this delivery started; the item taken last.
NextItem(r) ==
    /\ req[r].pc = "next"
    /\ LET rq == req[r]
       IN  IF rq.left = 0
           THEN req' = [req EXCEPT ![r].pc = "responded"]
           ELSE \E tx \in TxPool :
                  req' = [req EXCEPT ![r] =
                            IF tx.signature = None
                            THEN [ItemDone(rq) EXCEPT !.left = rq.left - 1,
                                                      !.item = rq.item + 1,
                                                      !.replay = FALSE, !.seen = tx]
                            ELSE [rq EXCEPT !.pc = "exists", !.left = rq.left - 1,
                                            !.item = rq.item + 1, !.tx = tx,
                                            !.replay = Stored(tx.signature),
                                            !.seen = tx]]
    /\ UNCHANGED <<transactions, addLog, alerts, tokenCache>>
    /\ PipelineFrame

\* A mutant of ExistsReturn: the type of the transaction is not looked at.
ExistsReturn_any_type(r) ==
    /\ req[r].pc = "exists"
    /\ LET rq == req[r]
       IN  req' = [req EXCEPT ![r] =
                     IF transaction_exists(transactions, rq.tx.signature) THEN ItemDone(rq)
                     ELSE [rq EXCEPT !.pc = "get_wallet", !.fee_payer = rq.tx.feePayer]]
    /\ UNCHANGED <<transactions, addLog, alerts, tokenCache>>
    /\ PipelineFrame

\* process_transaction: db.transaction_exists returns; then the type check.
ExistsReturn(r) ==
    /\ req[r].pc = "exists"
    /\ LET rq == req[r]
       IN  req' = [req EXCEPT ![r] =
                     IF transaction_exists(transactions, rq.tx.signature) THEN ItemDone(rq)
                     ELSE IF rq.tx.type # "SWAP" THEN ItemDone(rq)
                     ELSE [rq EXCEPT !.pc = "get_wallet", !.fee_payer = rq.tx.feePayer]]
    /\ UNCHANGED <<transactions, addLog, alerts, tokenCache>>
    /\ PipelineFrame

\* process_swap_transaction: db.get_wallet(fee_payer) returns.
GetWalletReturn(r) ==
    /\ req[r].pc = "get_wallet"
    /\ LET wallet == get_wallet(wallets, req[r].fee_payer)
           after == AfterWallet(req[r], wallet, tokenCache)
       IN  IF wallet.found
           THEN req' = [req EXCEPT ![r] = after.rq] /\ tokenCache' = after.cache
           ELSE /\ req' = [req EXCEPT ![r] =
                             IF req[r].tx.accountData = <<>> THEN ItemDone(req[r])
                             ELSE [req[r] EXCEPT !.pc = "scan", !.scan = 1]]
                /\ tokenCache' = tokenCache
    /\ UNCHANGED <<transactions, addLog, alerts>>
    /\ PipelineFrame

\* A mutant of ScanReturn: when no entry of the account list is tracked, the pipeline goes on
\* for the fee payer.
ScanReturn_untracked(r) ==
    /\ req[r].pc = "scan"
    /\ LET wallet == get_wallet(wallets, req[r].tx.accountData[req[r].scan])
           after == AfterWallet(req[r], wallet, tokenCache)
           payer == AfterWallet(req[r], [address |-> req[r].tx.feePayer, name |-> None],
                                tokenCache)
       IN  IF wallet.found
           THEN req' = [req EXCEPT ![r] = after.rq] /\ tokenCache' = after.cache
           ELSE IF req[r].scan = Len(req[r].tx.accountData)
           THEN req' = [req EXCEPT ![r] = payer.rq] /\ tokenCache' = payer.cache
           ELSE /\ req' = [req EXCEPT ![r].scan = @ + 1]
                /\ tokenCache' = tokenCache
    /\ UNCHANGED <<transactions, addLog, alerts>>
    /\ PipelineFrame

\* process_swap_transaction: db.get_wallet(account_addr) returns for one accountData entry.
ScanReturn(r) ==
    /\ req[r].pc = "scan"
    /\ LET wallet == get_wallet(wallets, req[r].tx.accountData[req[r].scan])
           after == AfterWallet(req[r], wallet, tokenCache)
       IN  IF wallet.found
           THEN req' = [req EXCEPT ![r] = after.rq] /\ tokenCache' = after.cache
           ELSE /\ req' = [req EXCEPT ![r] =
                             IF req[r].scan = Len(req[r].tx.accountData)
                             THEN ItemDone(req[r])
                             ELSE [req[r] EXCEPT !.scan = @ + 1]]
                /\ tokenCache' = tokenCache
    /\ UNCHANGED <<transactions, addLog, alerts>>
    /\ PipelineFrame

\* A mutant of StrictReturn: a failed request for the token list ends the processing of the
\* transaction.
StrictReturn_blocks(r) ==
    /\ req[r].pc = "strict"
    /\ LET mint == SwapInfo(req[r]).token_address
       IN  \/ /\ req' = [req EXCEPT ![r].pc = "price", ![r].token_symbol = SymbolOf(mint)]
              /\ tokenCache' = [tokenCache EXCEPT ![mint] = SymbolOf(mint)]
           \/ /\ req' = [req EXCEPT ![r].pc = "all"]
              /\ tokenCache' = tokenCache
           \/ /\ req' = [req EXCEPT ![r] = ItemDone(@)]
              /\ tokenCache' = tokenCache
    /\ UNCHANGED <<transactions, addLog, alerts>>
    /\ PipelineFrame

\* get_token_info: the strict token list returns: the token is in it, or it is not, or
\* the request failed.
StrictReturn(r) ==
    /\ req[r].pc = "strict"
    /\ LET mint == SwapInfo(req[r]).token_address
       IN  \/ /\ req' = [req EXCEPT ![r].pc = "price", ![r].token_symbol = SymbolOf(mint)]
              /\ tokenCache' = [tokenCache EXCEPT ![mint] = SymbolOf(mint)]
           \/ /\ req' = [req EXCEPT ![r].pc = "all"]
              /\ tokenCache' = tokenCache
           \/ /\ req' = [req EXCEPT ![r].pc = "price", ![r].token_symbol = "UNKNOWN"]
              /\ tokenCache' = tokenCache
    /\ UNCHANGED <<transactions, addLog, alerts>>
    /\ PipelineFrame

\* _get_token_from_all: the single-token endpoint returns the token, or 404 or an error.
AllReturn(r) ==
    /\ req[r].pc = "all"
    /\ LET mint == SwapInfo(req[r]).token_address
       IN  \/ /\ req' = [req EXCEPT ![r].pc = "price", ![r].token_symbol = SymbolOf(mint)]
              /\ tokenCache' = [tokenCache EXCEPT ![mint] = SymbolOf(mint)]
           \/ /\ req' = [req EXCEPT ![r].pc = "price", ![r].token_symbol = "UNKNOWN"]
              /\ tokenCache' = tokenCache
    /\ UNCHANGED <<transactions, addLog, alerts>>
    /\ PipelineFrame

\* get_token_price returns; usd_value = amount * price when the price is truthy.
PriceReturn(r) ==
    /\ req[r].pc = "price"
    /\ \E price \in Prices :
         req' = [req EXCEPT ![r].pc = "add_tx",
                            ![r].usd_value = IF price = NoneNum \/ price = 0 THEN NoneNum
                                             ELSE RowOf(req[r]).amount * price]
    /\ UNCHANGED <<transactions, addLog, alerts, tokenCache>>
    /\ PipelineFrame

\* A mutant of AddTransactionReturn: an error of the database is logged and the alert is
\* sent all the same.
AddTransactionReturn_goes_on(r) ==
    /\ req[r].pc = "add_tx"
    /\ \/ LET res == add_transaction(transactions, RowOf(req[r]))
          IN  /\ transactions' = res.transactions
              /\ addLog' = addLog \cup {[signature |-> req[r].tx.signature,
                                           by |-> <<r, req[r].item>>, ret |-> res.ret]}
              /\ req' = [req EXCEPT ![r].pc = "send"]
       \/ /\ req' = [req EXCEPT ![r].pc = "send", ![r].raised = TRUE]
          /\ UNCHANGED <<transactions, addLog>>
    /\ UNCHANGED <<alerts, tokenCache>>
    /\ PipelineFrame

\* db.add_transaction returns True or False (the value is not looked at), or the
\* database raises another error, which process_transaction catches.
AddTransactionReturn(r) ==
    /\ req[r].pc = "add_tx"
    /\ \/ LET res == add_transaction(transactions, RowOf(req[r]))
          IN  /\ transactions' = res.transactions
              /\ addLog' = addLog \cup {[signature |-> req[r].tx.signature,
                                           by |-> <<r, req[r].item>>, ret |-> res.ret]}
              /\ req' = [req EXCEPT ![r].pc = "send"]
       \/ /\ req' = [req EXCEPT ![r] = Caught(@)]
          /\ UNCHANGED <<transactions, addLog>>
    /\ UNCHANGED <<alerts, tokenCache>>
    /\ PipelineFrame

\* A mutant of SendReturn: a message that could not be delivered is sent again.
SendReturn_retries(r) ==
    /\ req[r].pc = "send"
    /\ \E ok \in BOOLEAN :
         /\ alerts' = alerts \cup {[signature |-> req[r].tx.signature,
                                     type |-> SwapInfo(req[r]).type,
                                     wallet_address |-> req[r].fee_payer,
                                     wallet_name |-> req[r].wallet_name,
                                     token_address |-> SwapInfo(req[r]).token_address,
                                     token_symbol |-> req[r].token_symbol,
                                     usd_value |-> req[r].usd_value,
                                     by |-> <<r, req[r].item>>, delivered |-> ok]}
         /\ req' = [req EXCEPT ![r] = IF ok THEN ItemDone(@) ELSE @]
    /\ UNCHANGED <<transactions, addLog, tokenCache>>
    /\ PipelineFrame

\* send_alert returns: the message was delivered, or the failure was logged.
SendReturn(r) ==
    /\ req[r].pc = "send"
    /\ \E ok \in BOOLEAN :
         alerts' = alerts \cup {[signature |-> req[r].tx.signature,
                                  type |-> SwapInfo(req[r]).type,
                                  wallet_address |-> req[r].fee_payer,
                                  wallet_name |-> req[r].wallet_name,
                                  token_address |-> SwapInfo(req[r]).token_address,
                                  token_symbol |-> req[r].token_symbol,
                                  usd_value |-> req[r].usd_value,
                                  by |-> <<r, req[r].item>>, delivered |-> ok]}
    /\ req' = [req EXCEPT ![r] = ItemDone(@)]
    /\ UNCHANGED <<transactions, addLog, tokenCache>>
    /\ PipelineFrame

----------------------------------------------------------------------------
(* helius_client.py: get_wallet_balances and get_token_holders *)

TokenMint == "T"        \* the mint get_token_holders is asked about
NullDecimals == 0 - 1   \* a token account whose decimals field is JSON null

\* The token accounts a wallet can hold: {mint, amount, decimals} with amount > 0.
BalanceEntries ==
    { [mint |-> "T", amount |-> 10, decimals |-> 1],
      [mint |-> "T", amount |-> 2, decimals |-> 0],
      [mint |-> "U", amount |-> 5, decimals |-> 0],
      [mint |-> "T", amount |-> 1, decimals |-> NullDecimals] }

RECURSIVE Pow10(_)
Pow10(n) == IF n = 0 THEN 1 ELSE 10 * Pow10(n - 1)

\* bal["amount"] / (10 ** decimals), in units of 10^-AmountScale.
HumanAmount(amount, decimals) == amount * Pow10(AmountScale - decimals)

NoResult == [kind |-> "none", wallet |-> 0, amount |-> 0, decimals |-> 0]

\* A mutant of get_wallet_balances: the accounts of the reply are parsed although the
\* reply reports an error.
get_wallet_balances_ignore_error(reply) == reply.accounts

\* get_wallet_balances: the {mint, amount, decimals} list of the reply; [] when the request
\* failed (HTTP status, timeout, any exception) or the reply carries an RPC error.
get_wallet_balances(reply) == IF reply.ok THEN reply.accounts ELSE <<>>

\* A mutant of check_wallet: the loop does not return at the first entry of the mint, the
\* last one is reported.
check_wallet_last_match(wallet, balances) ==
    LET of_mint == {b \in DOMAIN balances : balances[b].mint = TokenMint}
        k == IF of_mint = {} THEN 0
             ELSE CHOOSE b \in of_mint : \A c \in of_mint : c <= b
    IN  IF k = 0 THEN NoResult
        ELSE IF balances[k].decimals = NullDecimals
        THEN [NoResult EXCEPT !.kind = "exception"]
        ELSE [kind |-> "balance", wallet |-> wallet,
              amount |-> HumanAmount(balances[k].amount, balances[k].decimals),
              decimals |-> balances[k].decimals]

\* A mutant of check_wallet: the first entry is taken, whatever its mint.
check_wallet_any_mint(wallet, balances) ==
    LET k == IF balances = <<>> THEN 0 ELSE 1
    IN  IF k = 0 THEN NoResult
        ELSE IF balances[k].decimals = NullDecimals
        THEN [NoResult EXCEPT !.kind = "exception"]
        ELSE [kind |-> "balance", wallet |-> wallet,
              amount |-> HumanAmount(balances[k].amount, balances[k].decimals),
              decimals |-> balances[k].decimals]

\* check_wallet after get_wallet_balances returned: the TokenBalance of the first entry of
\* the mint, None, or the exception that 10 ** None raises.
check_wallet(wallet, balances) ==
    LET k == FirstIndex([b \in DOMAIN balances |-> balances[b].mint = TokenMint])
    IN  IF k = 0 THEN NoResult
        ELSE IF balances[k].decimals = NullDecimals
        THEN [NoResult EXCEPT !.kind = "exception"]
        ELSE [kind |-> "balance", wallet |-> wallet,
              amount |-> HumanAmount(balances[k].amount, balances[k].decimals),
              decimals |-> balances[k].decimals]

RECURSIVE InsertDesc_before_equal(_, _)
\* A mutant of InsertDesc: x is placed ahead of the elements of its own amount.
InsertDesc_before_equal(sorted, x) ==
    IF sorted = <<>> THEN <<x>>
    ELSE IF Head(sorted).amount > x.amount
    THEN <<Head(sorted)>> \o InsertDesc_before_equal(Tail(sorted), x)
    ELSE <<x>> \o sorted

RECURSIVE InsertDesc(_, _)
\* x placed behind every element whose amount is at least x.amount.
InsertDesc(sorted, x) ==
    IF sorted = <<>> THEN <<x>>
    ELSE IF Head(sorted).amount >= x.amount
    THEN <<Head(sorted)>> \o InsertDesc(Tail(sorted), x)
    ELSE <<x>> \o sorted

RECURSIVE SortDesc(_)
\* holders.sort(key=lambda x: x.amount, reverse=True): descending and stable.
SortDesc(s) ==
    IF s = <<>> THEN <<>>
    ELSE InsertDesc(SortDesc(SubSeq(s, 1, Len(s) - 1)), s[Len(s)])

TaskIdle == [pc |-> "wait", outcome |-> "pending", balances |-> <<>>, result |-> NoResult]

\* overtaken is history: a lookup has returned before the lookup of a wallet that is earlier
\* in the list.
HoldIdle ==
    [pc |-> "idle", n |-> 0, task |-> <<>>, permits |-> 0, holders |-> <<>>,
     overtaken |-> FALSE]

\* The results gather returns, in the order of the wallets.
Results(h) == [i \in 1..h.n |-> h.task[i].result]

\* A mutant of Collect: the holders are returned in the order of the wallets, unsorted.
Collect_unsorted(results) == SelectSeq(results, LAMBDA res: res.kind = "balance")

\* The loop over the gathered results and the sort: the TokenBalance results, ranked.
Collect(results) == SortDesc(SelectSeq(results, LAMBDA res: res.kind = "balance"))

HoldersFrame ==
    UNCHANGED <<wallets, transactions, last, ncalls, addLog, req, alerts, tokenCache, cls,
                cmd, hook, sup, calc>>

\* get_token_holders(token_mint, wallets) is called with a wallet list whose length is in
\* counts: the semaphore and one task per wallet.
CallHoldersWith(counts) ==
    /\ hold.pc = "idle"
    /\ \E n \in counts :
         hold' = [pc |-> "running", n |-> n, task |-> [i \in 1..n |-> TaskIdle],
                  permits |-> MAX_CONCURRENT_REQUESTS, holders |-> <<>>,
                  overtaken |-> FALSE]
    /\ HoldersFrame

CallHolders == CallHoldersWith(0..MaxHolderWallets)

\* A mutant of Acquire: the balance request is sent without entering the semaphore.
Acquire_ungated(i) ==
    /\ hold.pc = "running"
    /\ i \in 1..hold.n
    /\ hold.task[i].pc = "wait"
    /\ hold' = [hold EXCEPT !.task[i].pc = "lookup", !.permits = @ - 1]
    /\ HoldersFrame

\* check_wallet: async with semaphore is entered and the balance request is sent.
Acquire(i) ==
    /\ hold.pc = "running"
    /\ i \in 1..hold.n
    /\ hold.task[i].pc = "wait"
    /\ hold.permits > 0
    /\ hold' = [hold EXCEPT !.task[i].pc = "lookup", !.permits = @ - 1]
    /\ HoldersFrame

\* The lists of token accounts a reply can carry: no two of its accounts are alike.
AccountLists ==
    {accounts \in SeqsUpTo(BalanceEntries, MaxBalances) :
        \A i, j \in DOMAIN accounts : accounts[i] = accounts[j] => i = j}

\* The replies to a balance request: answered (ok) with a list of token accounts, or failed
\* (error status, timeout, RPC error).
Replies == [ok : BOOLEAN, accounts : AccountLists]

\* A mutant of LookupReturnFrom: the semaphore is left only when the lookup succeeded and
\* check_wallet did not raise.
LookupReturnFrom_leak(i, replies) ==
    /\ hold.pc = "running"
    /\ i \in 1..hold.n
    /\ hold.task[i].pc = "lookup"
    /\ \E reply \in replies :
         hold' = [hold EXCEPT !.task[i] =
                                 [pc |-> "done",
                                  outcome |-> IF reply.ok THEN "ok" ELSE "failed",
                                  balances |-> get_wallet_balances(reply),
                                  result |-> check_wallet(i, get_wallet_balances(reply))],
                              !.permits = hold.permits,
                              !.overtaken = hold.overtaken
                                            \/ \E j \in 1..(i - 1) : hold.task[j].pc # "done"]
    /\ HoldersFrame

\* The balance request of task i gets one of the replies; get_wallet_balances returns,
\* check_wallet runs to its end and leaves the semaphore.
LookupReturnFrom(i, replies) ==
    /\ hold.pc = "running"
    /\ i \in 1..hold.n
    /\ hold.task[i].pc = "lookup"
    /\ \E reply \in replies :
         hold' = [hold EXCEPT !.task[i] =
                                 [pc |-> "done",
                                  outcome |-> IF reply.ok THEN "ok" ELSE "failed",
                                  balances |-> get_wallet_balances(reply),
                                  result |-> check_wallet(i, get_wallet_balances(reply))],
                              !.permits = @ + 1,
                              !.overtaken = hold.overtaken
                                            \/ \E j \in 1..(i - 1) : hold.task[j].pc # "done"]
    /\ HoldersFrame

LookupReturn(i) == LookupReturnFrom(i, Replies)

\* gather returns once every task is done; the holders are collected and sorted.
GatherReturn ==
    /\ hold.pc = "running"
    /\ \A i \in 1..hold.n : hold.task[i].pc = "done"
    /\ hold' = [hold EXCEPT !.pc = "returned", !.holders = Collect(Results(hold))]
    /\ HoldersFrame

----------------------------------------------------------------------------
(* helius_client.py: the shared webhook; telegram_bot.py: add_command, remove_command *)

PLACEHOLDER == "11111111111111111111111111111111"

NoWebhookId == 0    \* _shared_webhook_id is None; webhook ids are 1, 2, ...

\* f"{WEBHOOK_URL}/helius" and the URL of a webhook of another application, as path segments.
HeliusUrl == <<"host", "helius">>
ForeignUrl == <<"elsewhere", "hook">>

\* webhook.get("webhookURL", "").endswith("/helius")
EndsWithHelius(url) == url # <<>> /\ url[Len(url)] = "helius"

ValidAddresses == {"w1", "w2"}
CmdAddresses == ValidAddresses \cup {"bad"}

\* is_valid_solana_address: 32 to 44 base58 characters; w1 and w2 stand for such strings.
is_valid_solana_address(address) == address \in ValidAddresses

\* [w["address"] for w in wallets]
AddressesOf(ws) == [i \in DOMAIN ws |-> ws[i].address]

\* The first webhook of the list whose URL ends in /helius, or 0.
FirstHelius(webhooks) ==
    FirstIndex([i \in DOMAIN webhooks |-> EndsWithHelius(webhooks[i].webhookURL)])

\* list_webhooks: the webhooks of the API key; [] when the request fails.
list_webhooks(remote, ok) == IF ok THEN remote ELSE <<>>

\* _create_webhook: the payload of the POST; the placeholder stands in for an empty list.
CreatePayload(wallet_addresses) ==
    [method |-> "POST", webhookURL |-> HeliusUrl,
     accountAddresses |-> IF wallet_addresses # <<>> THEN wallet_addresses
                          ELSE <<PLACEHOLDER>>]

\* update_webhook: the payload of the PUT.
UpdatePayload(wallet_addresses) ==
    [method |-> "PUT", webhookURL |-> HeliusUrl, accountAddresses |-> wallet_addresses]

\* A mutant of RemainingPayload: the remaining addresses are pushed as they are.
RemainingPayload_verbatim(remaining_addresses) == remaining_addresses

\* remove_wallet_from_webhook: the placeholder stands in for an empty remaining list.
RemainingPayload(remaining_addresses) ==
    IF remaining_addresses = <<>> THEN <<PLACEHOLDER>> ELSE remaining_addresses

\* The remote service creates a webhook from a POST payload: it gets the next id.
RemoteCreate(remote, payload) ==
    Append(remote, [webhookID |-> Len(remote) + 1, webhookURL |-> payload.webhookURL,
                    accountAddresses |-> payload.accountAddresses])

\* The remote service replaces the webhook webhook_id by a PUT payload.
RemoteUpdate(remote, webhook_id, payload) ==
    [i \in DOMAIN remote |->
        IF remote[i].webhookID = webhook_id
        THEN [remote[i] EXCEPT !.webhookURL = payload.webhookURL,
                               !.accountAddresses = payload.accountAddresses]
        ELSE remote[i]]

CmdIdle ==
    [pc |-> "idle", op |-> "none", address |-> None, name |-> None, wallet_name |-> None,
     addresses |-> <<>>, reply |-> "none", n |-> 0,
     had_id |-> FALSE, listed |-> FALSE, push |-> "none"]

\* failed and restarted are history: a remote call has been answered with an error, and the
\* process has been restarted.
HookIdle ==
    [shared_webhook_id |-> NoWebhookId, remote |-> <<>>, sent |-> {},
     failed |-> FALSE, restarted |-> FALSE]

\* The webhooks a fresh API key may already hold: none, or one of another application.
RemoteAtStart ==
    { <<>>,
      << [webhookID |-> 1, webhookURL |-> ForeignUrl, accountAddresses |-> <<"u1">>] >> }

CommandsFrame ==
    UNCHANGED <<transactions, last, ncalls, addLog, req, alerts, tokenCache, cls, hold, sup,
                calc>>

\* The handler has replied to the user and returned.
Replied(c, reply) == [c EXCEPT !.pc = "done", !.reply = reply]

\* A new command starts: the fields of the previous one are cleared.
Started(c, op, address, name) ==
    [CmdIdle EXCEPT !.op = op, !.address = address, !.name = name, !.n = c.n + 1,
                    !.had_id = (hook.shared_webhook_id # NoWebhookId)]

\* /add <address> <name>: the usage and format checks, then db.get_wallet is awaited.
AddCommand ==
    /\ cmd.pc \in {"idle", "done"}
    /\ cmd.n < MaxCommands
    /\ \E address \in CmdAddresses \cup {None}, name \in CmdNames :
         cmd' = IF address = None
                THEN Replied(Started(cmd, "add", None, None), "usage")
                ELSE IF ~is_valid_solana_address(address)
                THEN Replied(Started(cmd, "add", address, name), "invalid")
                ELSE [Started(cmd, "add", address, name) EXCEPT !.pc = "add_get_wallet"]
    /\ UNCHANGED <<wallets, hook>>
    /\ CommandsFrame

\* add_command: db.get_wallet returned; a tracked address is refused.
AddGetWalletReturn ==
    /\ cmd.pc = "add_get_wallet"
    /\ cmd' = IF get_wallet(wallets, cmd.address).found
              THEN Replied(cmd, "already")
              ELSE [cmd EXCEPT !.pc = "add_get_wallets"]
    /\ UNCHANGED <<wallets, hook>>
    /\ CommandsFrame

\* A mutant of AddGetWalletsReturn: the payload is the new address alone.
AddGetWalletsReturn_new_only ==
    /\ cmd.pc = "add_get_wallets"
    /\ cmd' = [cmd EXCEPT !.addresses = <<cmd.address>>,
                          !.pc = IF hook.shared_webhook_id # NoWebhookId
                                 THEN "add_update" ELSE "add_list",
                          !.listed = (hook.shared_webhook_id = NoWebhookId)]
    /\ UNCHANGED <<wallets, hook>>
    /\ CommandsFrame

\* add_command: db.get_wallets returned; all_addresses is the tracked addresses and the new
\* one. add_wallet_to_webhook enters get_or_create_shared_webhook: with a cached id the PUT is
\* sent, without one the webhooks are listed.
AddGetWalletsReturn ==
    /\ cmd.pc = "add_get_wallets"
    /\ cmd' = [cmd EXCEPT !.addresses = AddressesOf(get_wallets(wallets)) \o <<cmd.address>>,
                          !.pc = IF hook.shared_webhook_id # NoWebhookId
                                 THEN "add_update" ELSE "add_list",
                          !.listed = (hook.shared_webhook_id = NoWebhookId)]
    /\ UNCHANGED <<wallets, hook>>
    /\ CommandsFrame

\* get_or_create_shared_webhook: list_webhooks returned. The first webhook whose URL ends in
\* /helius is adopted and the PUT is sent; when there is none the POST is sent.
ListReturn ==
    /\ cmd.pc = "add_list"
    /\ \E ok \in BOOLEAN :
         LET webhooks == list_webhooks(hook.remote, ok)
             k == FirstHelius(webhooks)
         IN  IF k # 0
             THEN /\ hook' = [hook EXCEPT !.shared_webhook_id = webhooks[k].webhookID,
                                          !.failed = @ \/ ~ok]
                  /\ cmd' = [cmd EXCEPT !.pc = "add_update"]
             ELSE /\ hook' = [hook EXCEPT !.failed = @ \/ ~ok]
                  /\ cmd' = [cmd EXCEPT !.pc = "add_create"]
    /\ UNCHANGED wallets
    /\ CommandsFrame

\* _create_webhook([]): the POST is answered. On success the webhook exists remotely, its id
\* is cached and the PUT is sent; on failure add_wallet_to_webhook returns False.
CreateReturn ==
    /\ cmd.pc = "add_create"
    /\ \E ok \in BOOLEAN :
         IF ok
         THEN /\ hook' = [hook EXCEPT !.remote = RemoteCreate(@, CreatePayload(<<>>)),
                                      !.shared_webhook_id = Len(hook.remote) + 1,
                                      !.sent = @ \cup {CreatePayload(<<>>)}]
              /\ cmd' = [cmd EXCEPT !.pc = "add_update"]
         ELSE /\ hook' = [hook EXCEPT !.sent = @ \cup {CreatePayload(<<>>)},
                                      !.failed = TRUE]
              /\ cmd' = Replied(cmd, "setup_failed")
    /\ UNCHANGED wallets
    /\ CommandsFrame

\* A mutant of AddUpdateReturn: add_command does not look at the result of
\* add_wallet_to_webhook and goes on to db.add_wallet.
AddUpdateReturn_unchecked ==
    /\ cmd.pc = "add_update"
    /\ \E ok \in BOOLEAN :
         /\ hook' = [hook EXCEPT !.remote = IF ok
                                            THEN RemoteUpdate(@, hook.shared_webhook_id,
                                                              UpdatePayload(cmd.addresses))
                                            ELSE @,
                                 !.sent = @ \cup {UpdatePayload(cmd.addresses)},
                                 !.failed = @ \/ ~ok]
         /\ cmd' = [cmd EXCEPT !.pc = "add_insert", !.push = IF ok THEN "ok" ELSE "failed"]
    /\ UNCHANGED wallets
    /\ CommandsFrame

\* add_wallet_to_webhook: the PUT of all_addresses is answered. On success db.add_wallet is
\* awaited; on failure the user is told and nothing is stored.
AddUpdateReturn ==
    /\ cmd.pc = "add_update"
    /\ \E ok \in BOOLEAN :
         /\ hook' = [hook EXCEPT !.remote = IF ok
                                            THEN RemoteUpdate(@, hook.shared_webhook_id,
                                                              UpdatePayload(cmd.addresses))
                                            ELSE @,
                                 !.sent = @ \cup {UpdatePayload(cmd.addresses)},
                                 !.failed = @ \/ ~ok]
         /\ cmd' = IF ok THEN [cmd EXCEPT !.pc = "add_insert", !.push = "ok"]
                   ELSE [Replied(cmd, "setup_failed") EXCEPT !.push = "failed"]
    /\ UNCHANGED wallets
    /\ CommandsFrame

\* add_command: db.add_wallet(address, name, None) returned.
AddWalletReturn ==
    /\ cmd.pc = "add_insert"
    /\ LET res == add_wallet(wallets, cmd.address, cmd.name, None)
       IN  /\ wallets' = res.wallets
           /\ cmd' = Replied(cmd, IF res.ret THEN "added" ELSE "add_failed")
    /\ UNCHANGED hook
    /\ CommandsFrame

\* /remove <address>: the usage check, then db.get_wallet is awaited.
RemoveCommand ==
    /\ cmd.pc \in {"idle", "done"}
    /\ cmd.n < MaxCommands
    /\ \E address \in CmdAddresses \cup {None} :
         cmd' = IF address = None
                THEN Replied(Started(cmd, "remove", None, None), "usage")
                ELSE [Started(cmd, "remove", address, None) EXCEPT !.pc = "rm_get_wallet"]
    /\ UNCHANGED <<wallets, hook>>
    /\ CommandsFrame

\* remove_command: db.get_wallet returned; an address that is not tracked is refused.
RemoveGetWalletReturn ==
    /\ cmd.pc = "rm_get_wallet"
    /\ cmd' = IF ~get_wallet(wallets, cmd.address).found
              THEN Replied(cmd, "not_found")
              ELSE [cmd EXCEPT !.pc = "rm_remove",
                               !.wallet_name = get_wallet(wallets, cmd.address).name]
    /\ UNCHANGED <<wallets, hook>>
    /\ CommandsFrame

\* remove_command: db.remove_wallet returned ("Remove from database first").
RemoveWalletReturn ==
    /\ cmd.pc = "rm_remove"
    /\ wallets' = remove_wallet(wallets, cmd.address).wallets
    /\ cmd' = [cmd EXCEPT !.pc = "rm_get_wallets"]
    /\ UNCHANGED hook
    /\ CommandsFrame

\* remove_command: db.get_wallets returned the remaining wallets. remove_wallet_from_webhook
\* returns True at once when no webhook id is cached; otherwise the PUT is sent.
RemoveGetWalletsReturn ==
    /\ cmd.pc = "rm_get_wallets"
    /\ cmd' = IF hook.shared_webhook_id = NoWebhookId
              THEN [Replied(cmd, "removed") EXCEPT
                        !.addresses = AddressesOf(get_wallets(wallets))]
              ELSE [cmd EXCEPT !.pc = "rm_update",
                               !.addresses =
                                   RemainingPayload(AddressesOf(get_wallets(wallets)))]
    /\ UNCHANGED <<wallets, hook>>
    /\ CommandsFrame

\* remove_wallet_from_webhook: the PUT of the remaining addresses is answered; remove_command
\* does not look at the result and confirms the removal.
RemoveUpdateReturn ==
    /\ cmd.pc = "rm_update"
    /\ \E ok \in BOOLEAN :
         /\ hook' = [hook EXCEPT !.remote = IF ok
                                            THEN RemoteUpdate(@, hook.shared_webhook_id,
                                                              UpdatePayload(cmd.addresses))
                                            ELSE @,
                                 !.sent = @ \cup {UpdatePayload(cmd.addresses)},
                                 !.failed = @ \/ ~ok]
         /\ cmd' = [Replied(cmd, "removed") EXCEPT
                        !.push = IF ok THEN "ok" ELSE "failed"]
    /\ UNCHANGED wallets
    /\ CommandsFrame

\* The process is restarted between two commands: the module global _shared_webhook_id is
\* None again; the database file and the remote webhooks stay.
Restart ==
    /\ cmd.pc \in {"idle", "done"}
    /\ hook.shared_webhook_id # NoWebhookId
    /\ hook' = [hook EXCEPT !.shared_webhook_id = NoWebhookId, !.restarted = TRUE]
    /\ cmd' = [CmdIdle EXCEPT !.n = cmd.n]
    /\ UNCHANGED wallets
    /\ CommandsFrame

----------------------------------------------------------------------------
(* main.py: main, run_telegram_bot, run_webhook_server; config.py: validate_config *)

Tasks == {"bot", "server"}

ConfigKeys == {"TELEGRAM_BOT_TOKEN", "HELIUS_API_KEY", "TELEGRAM_CHAT_ID"}

\* validate_config: the required settings that are missing.
validate_config(config) == {k \in ConfigKeys : ~config[k]}

\* A task that has run to its end: returned, raised, or was cancelled.
TaskDone == {"finished", "crashed", "cancelled"}

\* run_telegram_bot: the awaits in their order; the sleep loop ("running") is left only by
\* cancellation.
BotAwaits == <<"initialize", "start", "start_polling", "running",
               "updater_stop", "stop", "shutdown">>

AfterAwait(pc) ==
    IF pc = "shutdown" THEN "finished"
    ELSE BotAwaits[1 + FirstIndex([i \in DOMAIN BotAwaits |-> BotAwaits[i] = pc])]

SupIdle ==
    [main |-> "start", db |-> "unopened", config |-> [k \in ConfigKeys |-> TRUE],
     task |-> [t \in Tasks |-> "none"],
     pending |-> [t \in Tasks |-> FALSE],
     cancelled |-> [t \in Tasks |-> FALSE]]

SupFrame ==
    UNCHANGED <<wallets, transactions, last, ncalls, addLog, req, alerts, tokenCache, cls,
                hold, cmd, hook, calc>>

\* main: validate_config; sys.exit(1) when a required setting is missing.
ValidateConfig ==
    /\ sup.main = "start"
    /\ sup' = [sup EXCEPT !.main = IF validate_config(sup.config) # {} THEN "exit1"
                                   ELSE "connect"]
    /\ SupFrame

\* main: db.connect returned and both tasks are created, or it raised and main ends.
ConnectReturn ==
    /\ sup.main = "connect"
    /\ \E ok \in BOOLEAN :
         sup' = IF ok
                THEN [sup EXCEPT !.main = "wait", !.db = "open",
                                 !.task = [t \in Tasks |-> "created"]]
                ELSE [sup EXCEPT !.main = "raised"]
    /\ SupFrame

\* The event loop runs a created task up to its first await.
TaskStart(t) ==
    /\ sup.task[t] = "created"
    /\ ~sup.pending[t]
    /\ sup' = [sup EXCEPT !.task[t] = IF t = "bot" THEN "initialize" ELSE "serving"]
    /\ SupFrame

\* run_telegram_bot: an await other than the sleep returns.
BotAwaitReturn ==
    /\ sup.task["bot"] \in {"initialize", "start", "start_polling",
                            "updater_stop", "stop", "shutdown"}
    /\ ~sup.pending["bot"]
    /\ sup' = [sup EXCEPT !.task["bot"] = AfterAwait(@)]
    /\ SupFrame

\* run_telegram_bot: an await other than the sleep raises; nothing catches it.
BotRaise ==
    /\ sup.task["bot"] \in {"initialize", "start", "start_polling",
                            "updater_stop", "stop", "shutdown"}
    /\ ~sup.pending["bot"]
    /\ sup' = [sup EXCEPT !.task["bot"] = "crashed"]
    /\ SupFrame

\* run_webhook_server: server.serve() returns (the server was told to stop) or raises.
ServeReturn ==
    /\ sup.task["server"] = "serving"
    /\ ~sup.pending["server"]
    /\ \E ok \in BOOLEAN :
         sup' = [sup EXCEPT !.task["server"] = IF ok THEN "finished" ELSE "crashed"]
    /\ SupFrame

\* A pending cancellation reaches the task at its await. The sleep loop of the bot and
\* server.serve() are inside try/except CancelledError: the bot goes on to its finally block,
\* the server returns. Anywhere else the CancelledError ends the task.
DeliverCancel(t) ==
    /\ sup.pending[t]
    /\ sup.task[t] \notin TaskDone
    /\ sup' = [sup EXCEPT !.pending[t] = FALSE,
                          !.task[t] = IF sup.task[t] = "running" THEN "updater_stop"
                                      ELSE IF sup.task[t] = "serving" THEN "finished"
                                      ELSE "cancelled"]
    /\ SupFrame

\* A mutant of WaitReturn: the task that is still pending is not cancelled.
WaitReturn_nocancel ==
    /\ sup.main = "wait"
    /\ \E t \in Tasks : sup.task[t] \in TaskDone
    /\ sup' = [sup EXCEPT !.main = "closing"]
    /\ SupFrame

\* main: asyncio.wait(FIRST_COMPLETED) returns once a task is done; every task still pending
\* is cancelled, the exceptions of the done ones are logged, and db.close is awaited.
WaitReturn ==
    /\ sup.main = "wait"
    /\ \E t \in Tasks : sup.task[t] \in TaskDone
    /\ sup' = [sup EXCEPT !.main = "closing",
                          !.pending = [t \in Tasks |-> sup.task[t] \notin TaskDone],
                          !.cancelled = [t \in Tasks |-> sup.task[t] \notin TaskDone]]
    /\ SupFrame

\* main: db.close returned; main returns.
CloseReturn ==
    /\ sup.main = "closing"
    /\ sup' = [sup EXCEPT !.main = "returned", !.db = "closed"]
    /\ SupFrame

\* asyncio.run after main has returned or raised: the tasks that are not done are cancelled
\* and awaited.
Teardown ==
    /\ sup.main \in {"returned", "raised"}
    /\ sup' = [sup EXCEPT !.main = "teardown",
                          !.pending = [t \in Tasks |->
                                          sup.task[t] \notin (TaskDone \cup {"none"})]]
    /\ SupFrame

\* asyncio.run returns and the process exits.
Exit ==
    /\ sup.main = "teardown"
    /\ \A t \in Tasks : sup.task[t] \in (TaskDone \cup {"none"})
    /\ sup' = [sup EXCEPT !.main = "exited"]
    /\ SupFrame

----------------------------------------------------------------------------
(* solana_utils.py: calculate_token_amount, in IEEE 754 double arithmetic *)

\* A Python float is a double: a significand of Precision bits and a binary exponent. A
\* non-zero double is held as [exp, bits] with bits[1] = 1 and the value
\* bits[1] * 2^exp + bits[2] * 2^(exp - 1) + ...; a significand does not fit a TLC integer,
\* so the arithmetic is done on digits to the base 256.
Precision == 53

FloatZero == [exp |-> 0, bits |-> [i \in 1..Precision |-> 0]]

RECURSIVE Pow2(_)
Pow2(n) == IF n = 0 THEN 1 ELSE 2 * Pow2(n - 1)

\* The sequence of binary digits without its leading zeros.
Stripped(digits) ==
    IF \A i \in DOMAIN digits : digits[i] = 0 THEN <<>>
    ELSE SubSeq(digits, FirstIndex([i \in DOMAIN digits |-> digits[i] = 1]), Len(digits))

\* The binary digits of a sequence of digits to the base 256, eight for each.
BitsOfBytes(bytes) ==
    [i \in 1..(8 * Len(bytes)) |->
        (bytes[((i - 1) \div 8) + 1] \div Pow2(7 - ((i - 1) % 8))) % 2]

\* The digits to the base 256 of a sequence of binary digits.
BytesOfBits(digits) ==
    LET pad == (8 - (Len(digits) % 8)) % 8
        bit(i) == IF i <= pad THEN 0 ELSE digits[i - pad]
    IN  [j \in 1..((Len(digits) + pad) \div 8) |->
            128 * bit(8 * j - 7) + 64 * bit(8 * j - 6) + 32 * bit(8 * j - 5)
              + 16 * bit(8 * j - 4) + 8 * bit(8 * j - 3) + 4 * bit(8 * j - 2)
              + 2 * bit(8 * j - 1) + bit(8 * j)]

RECURSIVE Bytes(_)
\* The digits to the base 256 of n, most significant first; none for 0.
Bytes(n) == IF n = 0 THEN <<>> ELSE Bytes(n \div 256) \o <<n % 256>>

\* The binary digits of n, most significant first; none for 0.
Bin(n) == Stripped(BitsOfBytes(Bytes(n)))

\* The last place of the sequence that holds b, or 0.
LastIndex(digits, b) ==
    IF \A i \in DOMAIN digits : digits[i] # b THEN 0
    ELSE CHOOSE i \in DOMAIN digits :
            digits[i] = b /\ \A j \in (i + 1)..Len(digits) : digits[j] # b

\* The significand plus one unit in the last place; one digit longer when it carries out.
Inc(digits) ==
    IF LastIndex(digits, 0) = 0 THEN <<1>> \o [i \in DOMAIN digits |-> 0]
    ELSE [i \in DOMAIN digits |->
            IF i < LastIndex(digits, 0) THEN digits[i]
            ELSE IF i = LastIndex(digits, 0) THEN 1 ELSE 0]

\* The significand minus one unit in the last place (the significand is not zero).
Dec(digits) ==
    [i \in DOMAIN digits |->
        IF i < LastIndex(digits, 1) THEN digits[i]
        ELSE IF i = LastIndex(digits, 1) THEN 0 ELSE 1]

\* The exact value with the binary digits given (digits[1] = 1, worth 2^e) and, when sticky,
\* a non-zero rest below them, rounded to the nearest double, ties to even.
RoundNearestEven(digits, e, sticky) ==
    IF Len(digits) <= Precision
    THEN [exp |-> e,
          bits |-> [i \in 1..Precision |-> IF i <= Len(digits) THEN digits[i] ELSE 0]]
    ELSE LET keep == SubSeq(digits, 1, Precision)
             rest == sticky \/ \E i \in (Precision + 2)..Len(digits) : digits[i] = 1
             up == digits[Precision + 1] = 1 /\ (rest \/ keep[Precision] = 1)
         IN  IF ~up THEN [exp |-> e, bits |-> keep]
             ELSE IF Len(Inc(keep)) > Precision
             THEN [exp |-> e + 1, bits |-> SubSeq(Inc(keep), 1, Precision)]
             ELSE [exp |-> e, bits |-> Inc(keep)]

\* float(n) for an integer 0 <= n < 2^31: exact.
FloatOfInt(n) ==
    IF n = 0 THEN FloatZero ELSE RoundNearestEven(Bin(n), Len(Bin(n)) - 1, FALSE)

RECURSIVE ShiftsUp(_, _)
\* The least j with a * 2^j >= b (a > 0).
ShiftsUp(a, b) == IF a >= b THEN 0 ELSE 1 + ShiftsUp(2 * a, b)

RECURSIVE ShiftsDown(_, _)
\* The greatest k with b * 2^k <= a (0 < b <= a).
ShiftsDown(a, b) == IF 2 * b > a THEN 0 ELSE 1 + ShiftsDown(a, 2 * b)

RECURSIVE DivBytes(_, _, _)
\* The first n digits to the base 256 of r / (256 * d), for 0 <= r < 256 * d: long division.
DivBytes(r, d, n) ==
    IF n = 0 THEN <<>> ELSE <<r \div d>> \o DivBytes(256 * (r % d), d, n - 1)

RECURSIVE DivRest(_, _, _)
\* What long division of r by d has left after n digits.
DivRest(r, d, n) == IF n = 0 THEN r ELSE DivRest(256 * (r % d), d, n - 1)

\* The digits to the base 256 that cover the significand, the rounding digit and more.
QuotientBytes == 7

\* a / b for integers a >= 0 and b > 0: Python's true division, the quotient correctly
\* rounded to a double. num / den is the quotient scaled into [1, 2).
TrueDiv(a, b) ==
    IF a = 0 THEN FloatZero
    ELSE LET e == IF a >= b THEN ShiftsDown(a, b) ELSE 0 - ShiftsUp(a, b)
             num == IF a >= b THEN a ELSE a * Pow2(ShiftsUp(a, b))
             den == IF a >= b THEN b * Pow2(ShiftsDown(a, b)) ELSE b
         IN  RoundNearestEven(
                 <<1>> \o BitsOfBytes(DivBytes(256 * (num - den), den, QuotientBytes)),
                 e, DivRest(256 * (num - den), den, QuotientBytes) # 0)

RECURSIVE MulBytes(_, _, _)
\* The digits to the base 256 of bytes * n + carry, for an integer 0 < n < 2^22.
MulBytes(bytes, n, carry) ==
    IF bytes = <<>> THEN Bytes(carry)
    ELSE MulBytes(SubSeq(bytes, 1, Len(bytes) - 1), n,
                  (bytes[Len(bytes)] * n + carry) \div 256)
            \o <<(bytes[Len(bytes)] * n + carry) % 256>>

\* The binary digits of the significand times n.
MulBits(digits, n) == Stripped(BitsOfBytes(MulBytes(BytesOfBits(digits), n, 0)))

\* x * n for a double x >= 0 and an integer 0 < n < 2^22: the exact product, rounded.
FloatTimesInt(x, n) ==
    IF x = FloatZero THEN FloatZero
    ELSE RoundNearestEven(MulBits(x.bits, n),
                          x.exp + Len(MulBits(x.bits, n)) - Precision, FALSE)

\* A mutant of calculate_token_amount: floor division.
calculate_token_amount_floordiv(raw_amount, decimals) ==
    FloatOfInt(raw_amount \div Pow10(decimals))

\* calculate_token_amount: raw_amount / (10 ** decimals)
calculate_token_amount(raw_amount, decimals) == TrueDiv(raw_amount, Pow10(decimals))

\* The raw amounts and decimals calculate_token_amount is called on.
RawAmounts == (0..MaxRawAmount) \cup {1500000}
Decimals == (0..MaxDecimals) \cup {6}

CalcIdle == [pc |-> "idle", raw_amount |-> 0, decimals |-> 0, result |-> FloatZero]

CallCalculateTokenAmount ==
    /\ calc.pc = "input"
    /\ calc' = [calc EXCEPT !.pc = "returned",
                            !.result = calculate_token_amount(calc.raw_amount,
                                                              calc.decimals)]
    /\ UNCHANGED <<wallets, transactions, last, ncalls, addLog, req, alerts, tokenCache, cls,
                   hold, cmd, hook, sup>>

----------------------------------------------------------------------------
(* The Database interface, called in any order (SpecDb) *)

TxRows ==
    [wallet_address : {"w1"}, signature : Signatures, type : {"buy", "sell"},
     token_address : {"X"}, token_symbol : {"XS"}, amount : {1}, usd_value : {NoneNum, 3}]

DbAddresses == {"w1", "w2"}

NoCall == [op |-> "none"]

DbFrame == UNCHANGED <<addLog, req, alerts, tokenCache, cls, hold, cmd, hook, sup, calc>>

DbAddWallet ==
    /\ ncalls < MaxCalls
    /\ \E address \in DbAddresses, name \in Names :
         LET res == add_wallet(wallets, address, name, None)
         IN  /\ wallets' = res.wallets
             /\ last' = [op |-> "add_wallet", address |-> address, name |-> name,
                         ret |-> res.ret]
    /\ ncalls' = ncalls + 1
    /\ UNCHANGED transactions
    /\ DbFrame

DbRemoveWallet ==
    /\ ncalls < MaxCalls
    /\ \E address \in DbAddresses :
         LET res == remove_wallet(wallets, address)
         IN  /\ wallets' = res.wallets
             /\ last' = [op |-> "remove_wallet", address |-> address, ret |-> res.ret]
    /\ ncalls' = ncalls + 1
    /\ UNCHANGED transactions
    /\ DbFrame

DbRenameWallet ==
    /\ ncalls < MaxCalls
    /\ \E address \in DbAddresses, new_name \in Names :
         LET res == rename_wallet(wallets, address, new_name)
         IN  /\ wallets' = res.wallets
             /\ last' = [op |-> "rename_wallet", address |-> address, name |-> new_name,
                         ret |-> res.ret]
    /\ ncalls' = ncalls + 1
    /\ UNCHANGED transactions
    /\ DbFrame

DbUpdateWebhookId ==
    /\ ncalls < MaxCalls
    /\ \E address \in DbAddresses :
         LET res == update_wallet_webhook_id(wallets, address, "wh1")
         IN  /\ wallets' = res.wallets
             /\ last' = [op |-> "update_wallet_webhook_id", address |-> address,
                         ret |-> res.ret]
    /\ ncalls' = ncalls + 1
    /\ UNCHANGED transactions
    /\ DbFrame

DbGetWallet ==
    /\ ncalls < MaxCalls
    /\ \E address \in DbAddresses :
         last' = [op |-> "get_wallet", address |-> address,
                  ret |-> get_wallet(wallets, address)]
    /\ ncalls' = ncalls + 1
    /\ UNCHANGED <<wallets, transactions>>
    /\ DbFrame

DbAddTransaction ==
    /\ ncalls < MaxCalls
    /\ \E row \in TxRows :
         LET res == add_transaction(transactions, row)
         IN  /\ transactions' = res.transactions
             /\ last' = [op |-> "add_transaction", row |-> row, ret |-> res.ret]
    /\ ncalls' = ncalls + 1
    /\ UNCHANGED wallets
    /\ DbFrame

DbTransactionExists ==
    /\ ncalls < MaxCalls
    /\ \E signature \in Signatures :
         last' = [op |-> "transaction_exists", signature |-> signature,
                  ret |-> transaction_exists(transactions, signature)]
    /\ ncalls' = ncalls + 1
    /\ UNCHANGED <<wallets, transactions>>
    /\ DbFrame

----------------------------------------------------------------------------
(* One call of analyze_swap on any input (SpecClassify) *)

CallAnalyzeSwap ==
    /\ cls.pc = "input"
    /\ cls' = [cls EXCEPT !.pc = "returned",
                          !.result = analyze_swap(Wallet, cls.token_transfers,
                                                  cls.native_transfers)]
    /\ UNCHANGED <<wallets, transactions, last, ncalls, addLog, req, alerts, tokenCache,
                   hold, cmd, hook, sup, calc>>

----------------------------------------------------------------------------
(* Specifications *)

TrackedAtStart ==
    << [address |-> "w1", name |-> "alice", helius_webhook_id |-> None],
       [address |-> "w2", name |-> "bob", helius_webhook_id |-> None] >>

InitIdle ==
    /\ last = NoCall
    /\ ncalls = 0
    /\ addLog = {}
    /\ req = [r \in Requests |-> ReqIdle]
    /\ alerts = {}
    /\ tokenCache = EmptyCache
    /\ cls = ClsIdle
    /\ hold = HoldIdle
    /\ transactions = <<>>
    /\ cmd = CmdIdle
    /\ hook = HookIdle
    /\ sup = SupIdle
    /\ calc = CalcIdle

\* The pipeline: the wallets w1 and w2 are tracked, no transaction is stored.
Init == InitIdle /\ wallets = TrackedAtStart

Next ==
    \/ \E r \in Requests : Receive(r)
    \/ \E r \in Requests : RejectMalformed(r)
    \/ \E r \in Requests : NextItem(r)
    \/ \E r \in Requests : ExistsReturn(r)
    \/ \E r \in Requests : GetWalletReturn(r)
    \/ \E r \in Requests : ScanReturn(r)
    \/ \E r \in Requests : StrictReturn(r)
    \/ \E r \in Requests : AllReturn(r)
    \/ \E r \in Requests : PriceReturn(r)
    \/ \E r \in Requests : AddTransactionReturn(r)
    \/ \E r \in Requests : SendReturn(r)

Spec == Init /\ [][Next]_vars

\* The Database after connect() on a new file: both tables are empty.
InitDb == InitIdle /\ wallets = <<>>

NextDb ==
    \/ DbAddWallet
    \/ DbRemoveWallet
    \/ DbRenameWallet
    \/ DbUpdateWebhookId
    \/ DbGetWallet
    \/ DbAddTransaction
    \/ DbTransactionExists

SpecDb == InitDb /\ [][NextDb]_vars

\* analyze_swap is about to be called on any token and native transfers.
InitClassify ==
    /\ last = NoCall
    /\ ncalls = 0
    /\ addLog = {}
    /\ req = [r \in Requests |-> ReqIdle]
    /\ alerts = {}
    /\ tokenCache = EmptyCache
    /\ hold = HoldIdle
    /\ transactions = <<>>
    /\ cmd = CmdIdle
    /\ hook = HookIdle
    /\ sup = SupIdle
    /\ calc = CalcIdle
    /\ wallets = TrackedAtStart
    /\ cls \in [pc : {"input"},
                token_transfers : SeqsUpTo(TokenTransfer, MaxTokenTransfers),
                native_transfers : SeqsUpTo(NativeTransfer, MaxNativeTransfers),
                result : {NoSwap}]

NextClassify == CallAnalyzeSwap

SpecClassify == InitClassify /\ [][NextClassify]_vars

InitHolders == InitIdle /\ wallets = TrackedAtStart

NextHolders ==
    \/ CallHolders
    \/ \E i \in 1..MaxHolderWallets : Acquire(i)
    \/ \E i \in 1..MaxHolderWallets : LookupReturn(i)
    \/ GatherReturn

SpecHolders == InitHolders /\ [][NextHolders]_vars

\* get_token_holders on one wallet more than the semaphore has permits; a lookup fails, or
\* it returns a token account of the mint without decimals and check_wallet raises.
GateWallets == MAX_CONCURRENT_REQUESTS + 1

GateReplies ==
    {reply \in Replies :
        \/ ~reply.ok /\ reply.accounts = <<>>
        \/ /\ reply.ok
           /\ Len(reply.accounts) = 1
           /\ check_wallet(1, reply.accounts).kind = "exception"}

\* asyncio starts the tasks in the order gather created them and wakes the waiters of a
\* semaphore first-in first-out: the next task to enter is the first one still waiting.
FirstWaiting(i) == \A j \in DOMAIN hold.task : j < i => hold.task[j].pc # "wait"

NextGate ==
    \/ CallHoldersWith({GateWallets})
    \/ \E i \in 1..GateWallets : FirstWaiting(i) /\ Acquire(i)
    \/ \E i \in 1..GateWallets : LookupReturnFrom(i, GateReplies)
    \/ GatherReturn

SpecGate == InitHolders /\ [][NextGate]_vars

\* The same call where the remote service answers the first and the last wallet with a
\* failure or with a token account without decimals, and the wallets between them with a
\* failure.
LiveReplies(i) ==
    IF i \in {1, GateWallets} THEN GateReplies ELSE {reply \in GateReplies : ~reply.ok}

NextGateLive ==
    \/ CallHoldersWith({GateWallets})
    \/ \E i \in 1..GateWallets : FirstWaiting(i) /\ Acquire(i)
    \/ \E i \in 1..GateWallets : LookupReturnFrom(i, LiveReplies(i))
    \/ GatherReturn

\* The event loop runs every task that is ready, and every balance request returns or fails
\* (its timeout is 30 seconds): a step that is possible is taken.
SpecGateLive == InitHolders /\ [][NextGateLive]_vars /\ WF_vars(NextGateLive)

\* The chat commands on a new database, with a new API key or one that another application
\* uses too.
InitCommands ==
    /\ last = NoCall
    /\ ncalls = 0
    /\ addLog = {}
    /\ req = [r \in Requests |-> ReqIdle]
    /\ alerts = {}
    /\ tokenCache = EmptyCache
    /\ cls = ClsIdle
    /\ hold = HoldIdle
    /\ transactions = <<>>
    /\ wallets = <<>>
    /\ sup = SupIdle
    /\ calc = CalcIdle
    /\ cmd = CmdIdle
    /\ hook \in {[HookIdle EXCEPT !.remote = remote] : remote \in RemoteAtStart}

NextCommands ==
    \/ AddCommand
    \/ AddGetWalletReturn
    \/ AddGetWalletsReturn
    \/ ListReturn
    \/ CreateReturn
    \/ AddUpdateReturn
    \/ AddWalletReturn
    \/ RemoveCommand
    \/ RemoveGetWalletReturn
    \/ RemoveWalletReturn
    \/ RemoveGetWalletsReturn
    \/ RemoveUpdateReturn
    \/ Restart

SpecCommands == InitCommands /\ [][NextCommands]_vars

\* The process starts with any of the required settings present or missing.
InitMain ==
    /\ last = NoCall
    /\ ncalls = 0
    /\ addLog = {}
    /\ req = [r \in Requests |-> ReqIdle]
    /\ alerts = {}
    /\ tokenCache = EmptyCache
    /\ cls = ClsIdle
    /\ hold = HoldIdle
    /\ transactions = <<>>
    /\ wallets = <<>>
    /\ cmd = CmdIdle
    /\ hook = HookIdle
    /\ calc = CalcIdle
    /\ sup \in {[SupIdle EXCEPT !.config = config] : config \in [ConfigKeys -> BOOLEAN]}

NextMain ==
    \/ ValidateConfig
    \/ ConnectReturn
    \/ \E t \in Tasks : TaskStart(t)
    \/ BotAwaitReturn
    \/ BotRaise
    \/ ServeReturn
    \/ \E t \in Tasks : DeliverCancel(t)
    \/ WaitReturn
    \/ CloseReturn
    \/ Teardown
    \/ Exit

SpecMain == InitMain /\ [][NextMain]_vars

\* calculate_token_amount is about to be called on a raw amount and a number of decimals.
InitCalc ==
    /\ last = NoCall
    /\ ncalls = 0
    /\ addLog = {}
    /\ req = [r \in Requests |-> ReqIdle]
    /\ alerts = {}
    /\ tokenCache = EmptyCache
    /\ cls = ClsIdle
    /\ hold = HoldIdle
    /\ transactions = <<>>
    /\ wallets = <<>>
    /\ cmd = CmdIdle
    /\ hook = HookIdle
    /\ sup = SupIdle
    /\ calc \in [pc : {"input"}, raw_amount : RawAmounts, decimals : Decimals,
                 result : {FloatZero}]

NextCalc == CallCalculateTokenAmount

SpecCalc == InitCalc /\ [][NextCalc]_vars

----------------------------------------------------------------------------
(* The transaction store and the ingestion pipeline *)

\* C1: a delivery that starts when a record of its signature is already stored, alone or
\* as an item of a batch, makes no add_transaction call and sends no alert.
C1_ReplayIsDropped ==
    \A r \in Requests :
        req[r].replay =>
            /\ \A a \in alerts : a.by # <<r, req[r].item>>
            /\ \A l \in addLog : l.by # <<r, req[r].item>>

\* A delivery of a stored signature, as the second item of a batch, has been dropped while
\* the alert of the first delivery is out.
C1_Witness ==
    \E r \in Requests :
        /\ req[r].replay
        /\ req[r].item = 2
        /\ req[r].pc = "next"
        /\ \E a \in alerts : a.delivered

AlertsFor(signature) == {a \in alerts : a.signature = signature /\ a.delivered}

RowsFor(signature) == {i \in DOMAIN transactions : transactions[i].signature = signature}

\* C2: deliveries of one signature that race between the existence check and the insert
\* leave at most one record and send at most one alert for the signature.
C2_OneRecordOneAlert ==
    \A signature \in Signatures :
        /\ Cardinality(RowsFor(signature)) <= 1
        /\ Cardinality(AlertsFor(signature)) <= 1

\* C3: there is at most one TransactionRecord per signature.
C3_UniqueSignature ==
    \A i, j \in DOMAIN transactions :
        transactions[i].signature = transactions[j].signature => i = j

\* Two racing deliveries of one signature both called add_transaction; one was refused.
C3_Witness ==
    \E l1, l2 \in addLog :
        /\ l1.signature = l2.signature
        /\ l1.ret
        /\ ~l2.ret

\* C4: transaction_exists(sig) is false at first, becomes true only by an add_transaction of
\* sig that returns True, and stays true with the record unchanged; add_transaction returns
\* True exactly when no record of the signature exists, so a second add returns False.
C4_ExistsAfterAdd ==
    /\ \A signature \in Signatures : ~transaction_exists(transactions, signature)
    /\ [][\A signature \in Signatures :
            LET before == transaction_exists(transactions, signature)
                after == transaction_exists(transactions', signature)
                added == /\ ncalls' = ncalls + 1
                         /\ last'.op = "add_transaction"
                         /\ last'.row.signature = signature
            IN  /\ before =>
                     /\ after
                     /\ \A i \in RowsFor(signature) :
                          i \in DOMAIN transactions' /\ transactions'[i] = transactions[i]
                /\ (~before /\ after) => (added /\ last'.ret /\ Stored(signature)')
                /\ added => (last'.ret = ~before)
                /\ (added /\ last'.ret) => after]_vars

\* A second add_transaction of a stored signature, with other field values, returned False
\* and the stored record is the original one.
C4_Witness ==
    /\ last.op = "add_transaction"
    /\ ~last.ret
    /\ \E i \in DOMAIN transactions :
         /\ transactions[i].signature = last.row.signature
         /\ transactions[i] # last.row

\* C5: add_wallet of an address that is not stored returns True and get_wallet then returns
\* the address with the name; add_wallet of a stored address returns False and changes no row.
C5_AddWallet ==
    [][(ncalls' = ncalls + 1 /\ last'.op = "add_wallet") =>
         IF \E i \in DOMAIN wallets : wallets[i].address = last'.address
         THEN ~last'.ret /\ wallets' = wallets
         ELSE /\ last'.ret
              /\ get_wallet(wallets', last'.address).found
              /\ get_wallet(wallets', last'.address).address = last'.address
              /\ get_wallet(wallets', last'.address).name = last'.name
              /\ \A i \in DOMAIN wallets : wallets'[i] = wallets[i]]_vars

\* add_wallet of a stored address with another name returned False; the first name is kept.
C5_Witness ==
    /\ last.op = "add_wallet"
    /\ ~last.ret
    /\ get_wallet(wallets, last.address).found
    /\ get_wallet(wallets, last.address).name # last.name
    /\ Len(wallets) = 2

\* C14: the items of a payload are attempted one after the other in payload order; an
\* exception raised by one item is caught, the later items are still processed, and the
\* request is answered ok only after every item has been attempted.
C14_BatchItemsIsolated ==
    \A r \in Requests :
        /\ req[r].pc = "responded" => req[r].left = 0
        /\ req[r].left > 0 => req[r].pc \notin {"responded", "rejected", "failed"}
        /\ req[r].raised => req[r].pc # "failed"

\* The first item of a payload of two raised, the second one was stored and alerted, and
\* the request was answered ok.
C14_Witness ==
    \E r \in Requests :
        /\ req[r].pc = "responded"
        /\ req[r].raised
        /\ req[r].item = 2
        /\ \E al \in alerts : al.by = <<r, 2>>
        /\ \A al \in alerts : al.by # <<r, 1>>

\* The address is in the tracked set.
Tracked(address) == \E i \in DOMAIN wallets : wallets[i].address = address

\* The first entry of the account list that is tracked, or 0.
FirstTracked(tx) ==
    FirstIndex([i \in DOMAIN tx.accountData |-> Tracked(tx.accountData[i])])

\* The acting wallet of a notification: the fee payer when it is tracked, otherwise the first
\* tracked address of the account list, otherwise None.
ActingWallet(tx) ==
    IF Tracked(tx.feePayer) THEN tx.feePayer
    ELSE IF FirstTracked(tx) # 0 THEN tx.accountData[FirstTracked(tx)]
    ELSE None

Classified(tx) == analyze_swap(ActingWallet(tx), tx.tokenTransfers, tx.nativeTransfers)

\* The notification has no signature, or is not of type SWAP, or names no tracked wallet, or
\* the classifier returns None for its acting wallet.
Dropped(tx) ==
    \/ tx.signature = None
    \/ tx.type # "SWAP"
    \/ ActingWallet(tx) = None
    \/ Classified(tx) = NoSwap

\* The add_transaction calls and the alerts of the delivery request r is at or was at last.
CallsOf(r) == {l \in addLog : l.by = <<r, req[r].item>>}

SendsOf(r) == {a \in alerts : a.by = <<r, req[r].item>>}

\* C26: a notification without signature, or not of type SWAP, or without a tracked wallet as
\* fee payer or in its account list, or that the classifier cannot classify, makes no
\* add_transaction call and sends no alert.
C26_DroppedLeavesNothing ==
    \A r \in Requests :
        (req[r].item > 0 /\ Dropped(req[r].seen)) => (CallsOf(r) = {} /\ SendsOf(r) = {})

\* One request carried a swap of a tracked wallet that cannot be classified, the other one a
\* swap without a tracked wallet; both were answered, nothing is stored and no alert is out.
C26_Witness ==
    \E r1, r2 \in Requests :
        /\ req[r1].pc = "responded" /\ req[r1].item = 1
        /\ req[r2].pc = "responded" /\ req[r2].item = 1
        /\ req[r1].seen.type = "SWAP"
        /\ ActingWallet(req[r1].seen) # None
        /\ Classified(req[r1].seen) = NoSwap
        /\ req[r2].seen.signature # None
        /\ req[r2].seen.type = "SWAP"
        /\ ActingWallet(req[r2].seen) = None
        /\ transactions = <<>>
        /\ alerts = {}

\* The record of the signature.
RecordOf(signature) == transactions[TransactionIndex(transactions, signature)]

\* C27: the pipeline goes on for the acting wallet of the notification, the fee payer when
\* it is tracked and otherwise the first tracked address of the account list; the alert of a
\* delivery carries that address and the classifier's result for it, and so does the record
\* the delivery inserted.
C27_ActingWallet ==
    \A r \in Requests :
        /\ req[r].pc \in {"strict", "all", "price", "add_tx", "send"} =>
              /\ req[r].fee_payer = ActingWallet(req[r].tx)
              /\ SwapInfo(req[r]) = Classified(req[r].tx)
        /\ \A a \in SendsOf(r) :
              /\ a.wallet_address = ActingWallet(req[r].seen)
              /\ a.type = Classified(req[r].seen).type
              /\ a.token_address = Classified(req[r].seen).token_address
        /\ \A l \in CallsOf(r) :
              l.ret =>
                /\ RecordOf(l.signature).wallet_address = ActingWallet(req[r].seen)
                /\ RecordOf(l.signature).type = Classified(req[r].seen).type
                /\ RecordOf(l.signature).token_address
                      = Classified(req[r].seen).token_address

\* One delivery has a tracked fee payer and another tracked address in its account list and
\* alerted for the fee payer; another has an untracked fee payer, an untracked first account
\* and a tracked second account, and alerted for the second account.
C27_Witness ==
    \E r1, r2 \in Requests :
        /\ Tracked(req[r1].seen.feePayer)
        /\ FirstTracked(req[r1].seen) # 0
        /\ req[r1].seen.accountData[FirstTracked(req[r1].seen)] # req[r1].seen.feePayer
        /\ \E a \in SendsOf(r1) : a.wallet_address = req[r1].seen.feePayer
        /\ \E l \in CallsOf(r1) :
             l.ret /\ RecordOf(l.signature).wallet_address = req[r1].seen.feePayer
        /\ ~Tracked(req[r2].seen.feePayer)
        /\ FirstTracked(req[r2].seen) = 2
        /\ \E a \in SendsOf(r2) : a.wallet_address = req[r2].seen.accountData[2]

\* C28: once a swap of a tracked wallet is classified, every answer of the metadata lookup,
\* a failure included, leads on to the price lookup, with the symbol UNKNOWN when no metadata
\* was found; every answer of the price lookup leads on to add_transaction, with no USD
\* value when there is no price; the record and the alert carry that symbol and that value,
\* and only an error of the database keeps the alert from being sent.
C28_LookupsNeverBlock ==
    [][\A r \in Requests :
         req'[r] # req[r] =>
           LET rq == req[r]
               by == <<r, rq.item>>
               mint == SwapInfo(rq).token_address
           IN  /\ rq.pc = "strict" =>
                     \/ req'[r].pc = "all"
                     \/ /\ req'[r].pc = "price"
                        /\ req'[r].token_symbol \in {SymbolOf(mint), "UNKNOWN"}
               /\ rq.pc = "all" =>
                     /\ req'[r].pc = "price"
                     /\ req'[r].token_symbol \in {SymbolOf(mint), "UNKNOWN"}
               /\ rq.pc = "price" =>
                     /\ req'[r].pc = "add_tx"
                     /\ req'[r].token_symbol = rq.token_symbol
                     /\ req'[r].usd_value = NoneNum \/ req'[r].usd_value > 0
               /\ rq.pc = "add_tx" =>
                     \/ /\ req'[r].pc = "next"
                        /\ req'[r].raised
                        /\ transactions' = transactions
                     \/ /\ req'[r].pc = "send"
                        /\ \E l \in addLog' \ addLog :
                             /\ l.by = by
                             /\ l.ret =>
                                  /\ transactions' # transactions
                                  /\ transactions'[Len(transactions')].token_symbol
                                        = rq.token_symbol
                                  /\ transactions'[Len(transactions')].usd_value
                                        = rq.usd_value
               /\ rq.pc = "send" =>
                     \E a \in alerts' \ alerts :
                         /\ a.by = by
                         /\ a.token_symbol = rq.token_symbol
                         /\ a.usd_value = rq.usd_value]_vars

\* The metadata lookup and the price lookup of a buy both failed: the record is stored and
\* the alert is delivered, with the symbol UNKNOWN and without a USD value.
C28_Witness ==
    \E a \in alerts :
        /\ a.delivered
        /\ a.token_symbol = "UNKNOWN"
        /\ a.usd_value = NoneNum
        /\ a.token_address # SOL_MINT
        /\ Stored(a.signature)
        /\ RecordOf(a.signature).token_symbol = "UNKNOWN"
        /\ RecordOf(a.signature).usd_value = NoneNum
        /\ \E l \in addLog : l.by = a.by /\ l.ret

\* C29: when the pipeline sends the alert of a delivery, also one that does not arrive, a
\* record of the signature is in the store and the add_transaction call of that delivery has
\* returned; a delivery whose add_transaction raised sends no alert.
C29_PersistBeforeAlert ==
    /\ \A r \in Requests :
         req[r].pc = "send" =>
           /\ Stored(req[r].tx.signature)
           /\ CallsOf(r) # {}
    /\ \A a \in alerts :
         /\ Stored(a.signature)
         /\ \E l \in addLog : l.by = a.by /\ l.signature = a.signature

\* The add_transaction call of the only delivery of one request raised and the request was
\* answered without an alert or a record of its own, while the other request stored and
\* alerted.
C29_Witness ==
    \E r \in Requests :
        /\ req[r].raised
        /\ req[r].pc = "responded"
        /\ req[r].item = 1
        /\ ~Dropped(req[r].seen)
        /\ CallsOf(r) = {}
        /\ SendsOf(r) = {}
        /\ \E a \in alerts : a.signature # req[r].seen.signature /\ Stored(a.signature)
        /\ ~Stored(req[r].seen.signature)

\* The alerts of the signature that could not be delivered.
FailedAlerts(signature) == {a \in alerts : a.signature = signature /\ ~a.delivered}

\* C30: an alert that could not be delivered is the only send attempt of its delivery and
\* the record of its signature is stored; after the attempt, delivered or not, the request
\* goes on with the next item of its batch and the store is as it was; a delivery of the
\* signature that starts later makes no add_transaction call and no send attempt.
C30_FailedAlertNotRetried ==
    /\ [](\A a \in alerts :
            ~a.delivered =>
              /\ Stored(a.signature)
              /\ \A b \in alerts : b.by = a.by => b = a)
    /\ [](\A r \in Requests :
            (req[r].replay /\ FailedAlerts(req[r].seen.signature) # {}) =>
              (SendsOf(r) = {} /\ CallsOf(r) = {}))
    /\ [][\A r \in Requests :
            (req[r].pc = "send" /\ req'[r] # req[r]) =>
              /\ req'[r].pc = "next"
              /\ req'[r].left = req[r].left
              /\ req'[r].item = req[r].item
              /\ transactions' = transactions
              /\ Cardinality(alerts') <= Cardinality(alerts) + 1]_vars

\* The alert of the first item of a batch could not be delivered; the second item, the same
\* signature again, was taken and dropped, and the request was answered: one record, one
\* send attempt.
C30_Witness ==
    \E r \in Requests :
        /\ req[r].pc = "responded"
        /\ req[r].item = 2
        /\ req[r].replay
        /\ \E a \in FailedAlerts(req[r].seen.signature) : a.by = <<r, 1>>
        /\ Cardinality(alerts) = 1
        /\ Len(transactions) = 1
        /\ transactions[1].signature = req[r].seen.signature

\* The request is past get_token_info with the metadata of its token.
Resolved(r) ==
    /\ req[r].pc \in {"price", "add_tx", "send"}
    /\ req[r].token_symbol # "UNKNOWN"

\* C31: a cache entry, once made, is never removed or changed; a get_token_info call for a
\* cached mint returns the entry without a remote call; and every caller that resolved a
\* mint, concurrent first-time callers included, holds the one entry the cache has for it.
C31_CacheOnlyGrows ==
    /\ [](\A r \in Requests :
            Resolved(r) => req[r].token_symbol = tokenCache[SwapInfo(req[r]).token_address])
    /\ [][/\ \A m \in Mints : tokenCache[m] # None => tokenCache'[m] = tokenCache[m]
          /\ \A r \in Requests :
               (req[r].pc \in {"get_wallet", "scan"} /\ req'[r].pc \in {"strict", "price"}) =>
                 LET mint == SwapInfo(req'[r]).token_address
                 IN  tokenCache[mint] # None =>
                       /\ req'[r].pc = "price"
                       /\ req'[r].token_symbol = tokenCache[mint]
                       /\ tokenCache' = tokenCache]_vars

\* Two requests looked up the same mint for the first time at the same moment: one has its
\* answer and the entry is cached while the request of the other is still out.
C31_Witness ==
    \E r1, r2 \in Requests :
        /\ req[r1].pc = "strict"
        /\ Resolved(r2)
        /\ SwapInfo(req[r1]).token_address = SwapInfo(req[r2]).token_address
        /\ tokenCache[SwapInfo(req[r1]).token_address] = req[r2].token_symbol

\* C33: every stored record was inserted by a delivery of a notification of type SWAP, has
\* type buy or sell, and has as wallet address the acting wallet of that notification, a
\* tracked address; the table changes by such an insert only.
C33_RecordsOfTrackedSwaps ==
    /\ [](\A i \in DOMAIN transactions :
            /\ transactions[i].type \in {"buy", "sell"}
            /\ Tracked(transactions[i].wallet_address))
    /\ [][transactions' # transactions =>
            \E r \in Requests :
               LET record == transactions'[Len(transactions')]
               IN  /\ transactions' = Append(transactions, record)
                   /\ req[r].pc = "add_tx"
                   /\ req[r].tx = req[r].seen
                   /\ req[r].tx.type = "SWAP"
                   /\ record.signature = req[r].tx.signature
                   /\ record.wallet_address = ActingWallet(req[r].tx)
                   /\ Tracked(record.wallet_address)
                   /\ record.type = Classified(req[r].tx).type
                   /\ record.type \in {"buy", "sell"}]_vars

\* One delivery stored the record of a swap for a wallet found in the account list; the
\* other delivery was not a swap and the table holds the one record.
C33_Witness ==
    \E r1, r2 \in Requests :
        /\ req[r1].seen.type = "SWAP"
        /\ ~Tracked(req[r1].seen.feePayer)
        /\ \E l \in CallsOf(r1) : l.ret /\ RecordOf(l.signature).wallet_address = "w2"
        /\ req[r2].pc = "responded"
        /\ req[r2].seen.type = "TRANSFER"
        /\ Len(transactions) = 1

----------------------------------------------------------------------------
(* The swap classifier *)

Returned == cls.pc = "returned"

NonSol(transfers) == SelectSeq(transfers, LAMBDA t: t.mint # SOL_MINT)

\* The token transfers of the call whose to-address is the wallet.
ToWallet == SelectSeq(cls.token_transfers, LAMBDA t: t.toUserAccount = Wallet)

\* The token transfers of the call whose from-address is the wallet.
FromWallet == SelectSeq(cls.token_transfers, LAMBDA t: t.fromUserAccount = Wallet)

\* The token transfers of the call to the wallet from another account.
FromOthers == SelectSeq(ToWallet, LAMBDA t: t.fromUserAccount # Wallet)

BuyOf(t) ==
    [type |-> "buy", token_address |-> t.mint, amount |-> t.tokenAmount, raw_amount |-> None]

SellOf(t) ==
    [type |-> "sell", token_address |-> t.mint, amount |-> t.tokenAmount, raw_amount |-> None]

NetNativeFlow ==
    sol_received(Wallet, cls.native_transfers) - sol_sent(Wallet, cls.native_transfers)

C7_SellOfFirstSent ==
    Returned =>
        LET received == NonSol(FromOthers)
            sent == NonSol(FromWallet)
        IN  (received = <<>> /\ sent # <<>>) => cls.result = SellOf(sent[1])

\* The wallet sent wrapped SOL first and then X, and sent more native SOL than it received:
\* the result is the sell of X.
C7_Witness ==
    /\ Returned
    /\ Len(cls.token_transfers) = 2
    /\ cls.token_transfers[1].fromUserAccount = Wallet
    /\ cls.token_transfers[1].mint = SOL_MINT
    /\ cls.token_transfers[2].fromUserAccount = Wallet
    /\ cls.token_transfers[2].mint = "X"
    /\ NetNativeFlow < 0
    /\ cls.result.type = "sell"
    /\ cls.result.token_address = "X"

\* C8: when no token transfer has the wallet as its from- or to-address (the list may be
\* empty), the result is None, whatever the native transfers are.
C8_NoTokenNoSwap ==
    Returned =>
        ((\A i \in DOMAIN cls.token_transfers :
            /\ cls.token_transfers[i].fromUserAccount # Wallet
            /\ cls.token_transfers[i].toUserAccount # Wallet)
         => cls.result = NoSwap)

\* No token transfer at all and more native SOL received than sent: the result is None.
C8_Witness ==
    /\ Returned
    /\ cls.token_transfers = <<>>
    /\ NetNativeFlow > 0
    /\ cls.result = NoSwap

\* Every token transfer that the wallet sent or received has the native-SOL sentinel mint.
OnlySolTokens ==
    \A i \in DOMAIN cls.token_transfers :
        (cls.token_transfers[i].fromUserAccount = Wallet
         \/ cls.token_transfers[i].toUserAccount = Wallet)
        => cls.token_transfers[i].mint = SOL_MINT

\* The native amounts whose from-address is the wallet, whose to-address is the wallet, and
\* whose to-address is the wallet and from-address another account.
NativeFromWallet ==
    SumAmounts(SelectSeq(cls.native_transfers, LAMBDA t: t.fromUserAccount = Wallet))

NativeToWallet ==
    SumAmounts(SelectSeq(cls.native_transfers, LAMBDA t: t.toUserAccount = Wallet))

NativeFromOthers ==
    SumAmounts(SelectSeq(cls.native_transfers,
                         LAMBDA t: t.toUserAccount = Wallet /\ t.fromUserAccount # Wallet))

\* C20, as the specification states it, received meaning that the to-address is the wallet:
\* with only SOL-mint tokens the result is a sell of the first sent token if more native SOL
\* was received than sent and a token was sent, otherwise a buy of the first received token
\* if more was sent than received and a token was received, otherwise None.
C20_SolOnlyRules ==
    (Returned /\ OnlySolTokens) =>
        cls.result =
            IF NativeToWallet > NativeFromWallet /\ FromWallet # <<>>
            THEN SellOf(FromWallet[1])
            ELSE IF NativeFromWallet > NativeToWallet /\ ToWallet # <<>>
            THEN BuyOf(ToWallet[1])
            ELSE NoSwap

\* C20, amended: the same rules, where a transfer, token or native, counts as received only
\* when its to-address is the wallet and its from-address is another account.
C20_SolOnlyRulesFromOthers ==
    (Returned /\ OnlySolTokens) =>
        cls.result =
            IF NativeFromOthers > NativeFromWallet /\ FromWallet # <<>>
            THEN SellOf(FromWallet[1])
            ELSE IF NativeFromWallet > NativeFromOthers /\ FromOthers # <<>>
            THEN BuyOf(FromOthers[1])
            ELSE NoSwap

\* The wallet paid native SOL to itself and received a SOL-mint token from another account:
\* the payment counts as sent only, and the result is a buy of the SOL mint.
C20_Witness ==
    /\ Returned
    /\ OnlySolTokens
    /\ Len(cls.native_transfers) = 1
    /\ cls.native_transfers[1].fromUserAccount = Wallet
    /\ cls.native_transfers[1].toUserAccount = Wallet
    /\ FromOthers # <<>>
    /\ FromWallet = <<>>
    /\ cls.result = BuyOf(FromOthers[1])
    /\ cls.result.token_address = SOL_MINT

\* The token transfers of the call that the wallet sent to itself.
SelfTransfers ==
    SelectSeq(cls.token_transfers,
              LAMBDA t: t.fromUserAccount = Wallet /\ t.toUserAccount = Wallet)

\* C21, as the specification states it: a token transfer is counted as sent exactly when
\* its from-address is the wallet and as received exactly when its to-address is the
\* wallet, so a transfer from the wallet to itself is received and triggers the buy rule.
C21_SentAndReceived ==
    Returned =>
        /\ tokens_sent(Wallet, cls.token_transfers) = Entries(FromWallet)
        /\ tokens_received(Wallet, cls.token_transfers) = Entries(ToWallet)
        /\ NonSol(SelfTransfers) # <<>> => cls.result.type = "buy"

\* C21, amended: a token transfer is counted as sent exactly when its from-address is the
\* wallet and as received exactly when its to-address is the wallet and its from-address is
\* another account; a non-SOL transfer from the wallet to itself is sent, so without a
\* non-SOL transfer from another account the result is a sell.
C21_SentOrElseReceived ==
    Returned =>
        /\ tokens_sent(Wallet, cls.token_transfers) = Entries(FromWallet)
        /\ tokens_received(Wallet, cls.token_transfers) = Entries(FromOthers)
        /\ (NonSol(SelfTransfers) # <<>> /\ NonSol(FromOthers) = <<>>) =>
              cls.result = SellOf(NonSol(FromWallet)[1])

\* The only token transfer is one of X from the wallet to itself: it is sent, nothing is
\* received, and the result is the sell of X.
C21_Witness ==
    /\ Returned
    /\ Len(cls.token_transfers) = 1
    /\ SelfTransfers = cls.token_transfers
    /\ cls.token_transfers[1].mint = "X"
    /\ tokens_received(Wallet, cls.token_transfers) = <<>>
    /\ Len(tokens_sent(Wallet, cls.token_transfers)) = 1
    /\ cls.result.type = "sell"

\* C35: when no token the wallet sent or received has a non-SOL mint, a result of
\* analyze_swap has the native-SOL sentinel mint as token address; a result with another
\* token address is that of the buy rule or of the sell rule on the mints, and some token
\* the wallet sent or received has a non-SOL mint.
C35_NativeBranchReportsSol ==
    Returned =>
        /\ (OnlySolTokens /\ cls.result # NoSwap) => cls.result.token_address = SOL_MINT
        /\ (cls.result # NoSwap /\ cls.result.token_address # SOL_MINT) =>
              /\ ~OnlySolTokens
              /\ cls.result = IF NonSol(FromOthers) # <<>> THEN BuyOf(NonSol(FromOthers)[1])
                              ELSE SellOf(NonSol(FromWallet)[1])

\* The wallet sent a SOL-mint token, received another one and received native SOL: the
\* result is the sell of the SOL mint.
C35_Witness ==
    /\ Returned
    /\ OnlySolTokens
    /\ FromWallet # <<>>
    /\ FromOthers # <<>>
    /\ NetNativeFlow > 0
    /\ cls.result.type = "sell"
    /\ cls.result.token_address = SOL_MINT

----------------------------------------------------------------------------
(* The holder aggregator *)

FirstMatch(balances) ==
    FirstIndex([b \in DOMAIN balances |-> balances[b].mint = TokenMint])

\* C10: the holders returned contain no wallet whose balance lookup failed, and they contain
\* every wallet whose lookup succeeded with a convertible balance of the mint, whichever
\* other lookups failed or raised.
C10_FailedLookupsExcluded ==
    hold.pc = "returned" =>
        /\ \A k \in DOMAIN hold.holders :
             hold.task[hold.holders[k].wallet].outcome = "ok"
        /\ \A i \in 1..hold.n :
             (/\ hold.task[i].outcome = "ok"
              /\ FirstMatch(hold.task[i].balances) # 0
              /\ hold.task[i].balances[FirstMatch(hold.task[i].balances)].decimals
                    # NullDecimals)
             => \E k \in DOMAIN hold.holders : hold.holders[k].wallet = i

\* The lookup of the first wallet failed and the second wallet is returned as the holder.
C10_Witness ==
    /\ hold.pc = "returned"
    /\ hold.n = 2
    /\ hold.task[1].outcome = "failed"
    /\ Len(hold.holders) = 1
    /\ hold.holders[1].wallet = 2

\* C11: the holders get_token_holders returns are ordered by human-readable amount, never
\* increasing from one entry to the next, in whatever order the lookups completed.
C11_HoldersRanked ==
    hold.pc = "returned" =>
        \A k \in 1..(Len(hold.holders) - 1) :
            hold.holders[k].amount >= hold.holders[k + 1].amount

\* The second wallet holds more than the first (2.0 against 10 / 10^1 = 1.0) and is
\* returned ahead of it.
C11_Witness ==
    /\ hold.pc = "returned"
    /\ Len(hold.holders) = 2
    /\ hold.holders[1].wallet = 2
    /\ hold.holders[2].wallet = 1
    /\ hold.holders[1].amount > hold.holders[2].amount

\* The positions of wallet i in the returned list.
EntriesOf(i) == {k \in DOMAIN hold.holders : hold.holders[k].wallet = i}

\* The lookup of wallet i succeeded and its balance list has an entry of the queried mint.
HasMatch(i) == hold.task[i].outcome = "ok" /\ FirstMatch(hold.task[i].balances) # 0

\* The first entry of the queried mint in the balance list of wallet i.
Match(i) == hold.task[i].balances[FirstMatch(hold.task[i].balances)]

SeveralMatches(balances) ==
    /\ FirstMatch(balances) # 0
    /\ \E b \in DOMAIN balances : b > FirstMatch(balances) /\ balances[b].mint = TokenMint

\* C34: the returned list has at most one entry per wallet; for a wallet whose balance list
\* has several entries of the queried mint the entry is that of the first one in list order,
\* which is reported whenever it has a number of decimals.
C34_FirstEntryOnly ==
    hold.pc = "returned" =>
        \A i \in 1..hold.n :
            /\ \A k1, k2 \in DOMAIN hold.holders :
                 (hold.holders[k1].wallet = i /\ hold.holders[k2].wallet = i) => k1 = k2
            /\ (hold.task[i].outcome = "ok" /\ SeveralMatches(hold.task[i].balances)) =>
                  LET first == Match(i)
                  IN  /\ first.decimals # NullDecimals =>
                            \E k \in DOMAIN hold.holders : hold.holders[k].wallet = i
                      /\ \A k \in DOMAIN hold.holders :
                            hold.holders[k].wallet = i =>
                              /\ hold.holders[k].amount
                                    = HumanAmount(first.amount, first.decimals)
                              /\ hold.holders[k].decimals = first.decimals

\* The first wallet holds the queried mint twice, 10 with one decimal and then 2 with none:
\* it is returned once, with 1.0.
C34_Witness ==
    /\ hold.pc = "returned"
    /\ hold.n >= 1
    /\ hold.task[1].outcome = "ok"
    /\ hold.task[1].balances = << [mint |-> "T", amount |-> 10, decimals |-> 1],
                                  [mint |-> "T", amount |-> 2, decimals |-> 0] >>
    /\ Cardinality(EntriesOf(1)) = 1
    /\ \A k \in EntriesOf(1) : hold.holders[k].amount = HumanAmount(10, 1)

\* C23: holders of equal amounts are returned in the order of their wallets in the input
\* list, in whatever order the lookups completed.
C23_TiesInListOrder ==
    hold.pc = "returned" =>
        \A k, l \in DOMAIN hold.holders :
            (k < l /\ hold.holders[k].amount = hold.holders[l].amount)
            => hold.holders[k].wallet < hold.holders[l].wallet

\* Two wallets hold the same amount and the lookup of the second returned before the lookup
\* of the first: the first wallet is returned ahead of the second.
C23_Witness ==
    /\ hold.pc = "returned"
    /\ hold.overtaken
    /\ Len(hold.holders) = 2
    /\ hold.holders[1].amount = hold.holders[2].amount
    /\ hold.holders[1].wallet = 1
    /\ hold.holders[2].wallet = 2

InFlight == Cardinality({i \in 1..hold.n : hold.task[i].pc = "lookup"})

\* C12: at no moment are more than 10 balance lookups in flight; a lookup is in flight only
\* while it holds one of the 10 permits, from acquiring it until the lookup has returned or
\* failed.
C12_AtMostTenInFlight ==
    hold.pc = "running" =>
        /\ InFlight <= 10
        /\ hold.permits >= 0
        /\ hold.permits + InFlight = 10

\* Ten lookups are in flight, the gate is shut and the eleventh task is waiting at it.
C12_Witness ==
    /\ hold.pc = "running"
    /\ InFlight = 10
    /\ hold.permits = 0
    /\ \E i \in 1..hold.n : hold.task[i].pc = "wait"

\* C24: get_token_holders starts one task per wallet and, every lookup returning or
\* failing, it returns, also for more wallets than permits: by then every task is done,
\* failed or not, and every permit is back; while it runs, the tasks that are not waiting
\* at the gate or done hold exactly the permits that are out.
C24_HoldersReturn ==
    /\ [](hold.pc = "running" =>
            /\ Len(hold.task) = hold.n
            /\ hold.permits + InFlight = MAX_CONCURRENT_REQUESTS)
    /\ [](hold.pc = "returned" =>
            /\ hold.permits = MAX_CONCURRENT_REQUESTS
            /\ \A i \in 1..hold.n : hold.task[i].pc = "done")
    /\ <>(hold.pc = "returned")

\* The call on eleven wallets has returned; the first ten lookups failed and the eleventh,
\* which had to wait at the gate, raised.
C24_Witness ==
    /\ hold.pc = "returned"
    /\ hold.n = MAX_CONCURRENT_REQUESTS + 1
    /\ \A i \in 1..MAX_CONCURRENT_REQUESTS : hold.task[i].outcome = "failed"
    /\ hold.task[hold.n].result.kind = "exception"
    /\ hold.permits = MAX_CONCURRENT_REQUESTS

----------------------------------------------------------------------------
(* The shared webhook and the chat commands *)

\* C13: every create or update request sent to the remote service carries a non-empty address
\* list; when no wallet is tracked the list is the single placeholder address.
C13_NeverEmptyList ==
    /\ \A r \in hook.sent : r.accountAddresses # <<>>
    /\ \A r \in hook.sent : r.method = "POST" => r.accountAddresses = <<PLACEHOLDER>>
    /\ (cmd.op = "remove" /\ cmd.push # "none" /\ wallets = <<>>) =>
            /\ cmd.addresses = <<PLACEHOLDER>>
            /\ UpdatePayload(cmd.addresses) \in hook.sent

\* The last wallet was removed and the update that was pushed carries the placeholder.
C13_Witness ==
    /\ cmd.op = "remove"
    /\ cmd.pc = "done"
    /\ cmd.push = "ok"
    /\ wallets = <<>>
    /\ UpdatePayload(<<PLACEHOLDER>>) \in hook.sent
    /\ CreatePayload(<<>>) \in hook.sent

\* C16: when the push of the remaining addresses fails during a remove command, the command
\* is blocked: the wallet is still in the Wallet Store and the user is shown a failure, not a
\* confirmation of the removal.
C16_FailedPushBlocksRemove ==
    (cmd.op = "remove" /\ cmd.pc = "done" /\ cmd.push = "failed") =>
        /\ get_wallet(wallets, cmd.address).found
        /\ cmd.reply # "removed"

HeliusWebhooks == {i \in DOMAIN hook.remote : EndsWithHelius(hook.remote[i].webhookURL)}

\* C17: a remove command that starts with no webhook id resolved while a webhook ending in
\* /helius exists remotely lists the webhooks, adopts that one and pushes the remaining
\* addresses to it.
C17_RemoveRediscovers ==
    (/\ cmd.op = "remove"
     /\ cmd.pc = "done"
     /\ cmd.reply = "removed"
     /\ ~cmd.had_id
     /\ HeliusWebhooks # {}) =>
        /\ cmd.listed
        /\ cmd.push # "none"
        /\ hook.shared_webhook_id # NoWebhookId

\* C18: at most one webhook whose URL ends in /helius exists at the remote service, whatever
\* commands ran and whichever remote calls failed.
C18_AtMostOneSubscription == Cardinality(HeliusWebhooks) <= 1

----------------------------------------------------------------------------
(* The conversion of raw token amounts *)

\* The result of the call times 10 ** decimals, as Python computes it.
TimesBack == FloatTimesInt(calc.result, Pow10(calc.decimals))

\* 1.5 as a double: binary 1.1
OnePointFive == [exp |-> 0, bits |-> [i \in 1..Precision |-> IF i <= 2 THEN 1 ELSE 0]]

\* The doubles next to the double of a positive integer.
NextUp(x) ==
    IF Len(Inc(x.bits)) > Precision
    THEN [exp |-> x.exp + 1, bits |-> SubSeq(Inc(x.bits), 1, Precision)]
    ELSE [exp |-> x.exp, bits |-> Inc(x.bits)]

NextDown(x) ==
    IF Dec(x.bits)[1] = 0
    THEN [exp |-> x.exp - 1, bits |-> [i \in 1..Precision |-> 1]]
    ELSE [exp |-> x.exp, bits |-> Dec(x.bits)]

RECURSIVE Pow5(_)
Pow5(n) == IF n = 0 THEN 1 ELSE 5 * Pow5(n - 1)

C25_AddPushesThenInserts ==
    [][(cmd.op = "add" /\ cmd'.op = "add" /\ cmd'.n = cmd.n) =>
         /\ (cmd.pc = "add_update" /\ cmd'.pc # "add_update") =>
               /\ hook'.sent =
                    hook.sent \cup {UpdatePayload(AddressesOf(wallets) \o <<cmd.address>>)}
               /\ wallets' = wallets
               /\ cmd'.push = "failed" => (cmd'.pc = "done" /\ cmd'.reply = "setup_failed")
         /\ (cmd.pc = "add_create" /\ cmd'.pc = "done") => cmd'.reply = "setup_failed"
         /\ wallets' # wallets =>
               /\ cmd.push = "ok"
               /\ cmd.pc = "add_insert"
               /\ wallets' = Append(wallets, [address |-> cmd.address, name |-> cmd.name,
                                              helius_webhook_id |-> None])
         /\ cmd'.reply = "setup_failed" => (cmd'.push # "ok" /\ wallets' = wallets)]_vars

\* With one wallet tracked, the push of an add command for a second wallet failed: the list
\* of both addresses was sent, the user got the failure and the store holds the one wallet.
C25_Witness ==
    /\ cmd.op = "add"
    /\ cmd.pc = "done"
    /\ cmd.reply = "setup_failed"
    /\ cmd.push = "failed"
    /\ Len(wallets) = 1
    /\ ~get_wallet(wallets, cmd.address).found
    /\ UpdatePayload(<<wallets[1].address, cmd.address>>) \in hook.sent

Range(seq) == {seq[i] : i \in DOMAIN seq}

\* Between two commands of one process in which no remote call has failed.
CleanAtRest == cmd.pc \in {"idle", "done"} /\ ~hook.failed /\ ~hook.restarted

\* C32: from an empty tracked set and no subscription, between commands of one process in
\* which every remote call succeeded, the subscription lists exactly the tracked addresses,
\* or the placeholder alone when no wallet is tracked; tracked wallets imply a subscription.
C32_RemoteMirrorsTracked ==
    CleanAtRest =>
        /\ Cardinality(HeliusWebhooks) <= 1
        /\ wallets # <<>> => HeliusWebhooks # {}
        /\ \A i \in HeliusWebhooks :
             LET held == hook.remote[i].accountAddresses
             IN  /\ Range(held) = IF wallets = <<>> THEN {PLACEHOLDER}
                                  ELSE Range(AddressesOf(wallets))
                 /\ Len(held) = Cardinality(Range(held))

\* Two adds and a remove, all pushed: the subscription holds the one wallet left.
C32_Witness ==
    /\ CleanAtRest
    /\ cmd.n = 3
    /\ cmd.op = "remove"
    /\ cmd.reply = "removed"
    /\ Len(wallets) = 1
    /\ \E i \in HeliusWebhooks : hook.remote[i].accountAddresses = AddressesOf(wallets)

----------------------------------------------------------------------------
(* The supervision of the two listeners *)

\* main has left asyncio.wait: it is closing the database or has closed it.
ShuttingDown == sup.main = "closing" \/ sup.db = "closed"

\* C15, as the specification states it: the two listeners are supervised independently; main
\* cancels neither of them, and it shuts down only after both have terminated.
C15_SupervisedIndependently ==
    /\ \A t \in Tasks : ~sup.cancelled[t]
    /\ ShuttingDown => \A t \in Tasks : sup.task[t] \in TaskDone

\* C15, amended: main shuts down as soon as one listener has terminated or crashed; a
\* listener that is still running then has been cancelled by main; the process exits only
\* after both have terminated.
C15_FirstToEndStopsBoth ==
    /\ ShuttingDown =>
          /\ \E t \in Tasks : sup.task[t] \in TaskDone /\ ~sup.cancelled[t]
          /\ \A t \in Tasks : sup.task[t] \in TaskDone \/ sup.cancelled[t]
    /\ \A t \in Tasks : sup.cancelled[t] => ShuttingDown
    /\ sup.main = "exited" => \A t \in Tasks : sup.task[t] \in (TaskDone \cup {"none"})

\* The webhook server has crashed, main is closing the database and the chat listener, still
\* in its sleep loop, has a cancellation pending.
C15_Witness ==
    /\ sup.main = "closing"
    /\ sup.task["server"] = "crashed"
    /\ sup.task["bot"] = "running"
    /\ sup.cancelled["bot"]
    /\ sup.pending["bot"]

====
